---- MODULE Spec2Model ----
(***************************************************************************)
(* Verification model of brain-radio's agents: the track verifier          *)
(* (src/src/brain_radio/agents/researcher.py), the constraint composer     *)
(* (src/src/brain_radio/agents/neuro_composer.py), the orchestrator        *)
(* (src/src/brain_radio/agents/supervisor.py) and the data they work on    *)
(* (src/src/brain_radio/models.py).                                        *)
(*                                                                         *)
(* Number encoding.  Python floats are modelled by integers:               *)
(*   - tempo (BPM) values are whole beats per minute;                      *)
(*   - energy, speechiness, instrumentalness and confidence are in         *)
(*     hundredths (0.7 is 70, 1.0 is 100);                                 *)
(*   - a distraction score is in ten-thousandths (a feature in hundredths  *)
(*     times a weight in hundredths), so 1.0 is 10000.                     *)
(* An Optional[...] field is a set: None is {} and a present value v is    *)
(* {v}.  A Python str that the code looks into is a sequence of            *)
(* one-character strings.                                                  *)
(***************************************************************************)
EXTENDS Integers, Sequences, FiniteSets, TLC

VARIABLES
    track,              \* the TrackMetadata object handed to verify_track (mutable)
    constraints,        \* the ProtocolConstraints object handed to verify_track
    pc,                 \* position of the verify_track coroutine
    distraction_score,  \* verify_track's local of that name
    decision,           \* the VerificationResult returned ({} while running)
    searches,           \* how often the search tool was invoked in this call
    search_outcome,     \* what the search tool did ({} while not invoked)
    track0,             \* the candidate as it was when verify_track was called
    composer_call,      \* the arguments (mode, genre) of a compose_constraints call
    composer_pc,        \* position of that call: "call", "returned" or "raised"
    composed,           \* what the call returned ({} before, and when it raised)
    composer_error,     \* the ValueError it raised ({} when none)
    state,              \* the SupervisorState dict of a supervisor run
    state0,             \* that dict as it was when the run started
    entry,              \* how the run was started (see InitSupervisor)
    stage,              \* the node to run next; "END"; or how the run ended
    walk,               \* the nodes that have run, in order
    verifier_calls,     \* the tracks handed to verify_track, in order
    playlist_outcome,   \* what generate_playlist returned or raised ({} before)
    extractor_text,     \* the text handed to _extract_bpm_from_text
    extractor_pc,       \* position of that call: "call" or "returned"
    extractor_result,   \* what the call returned (a one-element sequence)
    sessions,           \* the API's session store: session id -> session record
    clock,              \* time.time(), in whole seconds
    api_call,           \* the API request served last ({} before the first)
    api_response,       \* the answer to that request ({} before the first)
    score_track,        \* the candidate handed to _calculate_distraction_score
    score_pc,           \* position of that call: "call" or "returned"
    score_result        \* what the call returned ({} before)

verifierVars == <<track, constraints, pc, distraction_score, decision, searches,
                  search_outcome, track0>>

composerVars == <<composer_call, composer_pc, composed, composer_error>>

supervisorVars == <<state, state0, entry, stage, walk, verifier_calls,
                    playlist_outcome>>

extractorVars == <<extractor_text, extractor_pc, extractor_result>>

apiVars == <<sessions, clock, api_call, api_response>>

scoreVars == <<score_track, score_pc, score_result>>

vars == <<verifierVars, composerVars, supervisorVars, extractorVars, apiVars,
          scoreVars>>

----------------------------------------------------------------------------
(* Optional values *)

None == {}

Some(v) == {v}

Val(o) == CHOOSE v \in o : TRUE

Min(a, b) == IF a <= b THEN a ELSE b

----------------------------------------------------------------------------
(* The constants imported from brain_radio.agents.constants, in the units  *)
(* above, with values that agree with the assertions of the tests.         *)

INSTRUMENTALNESS_THRESHOLD == 50

SPEECHINESS_THRESHOLD == 33

DISTRACTION_SCORE_SPEECHINESS_WEIGHT == 40

DISTRACTION_SCORE_INSTRUMENTALNESS_WEIGHT == 30

DISTRACTION_SCORE_ENERGY_WEIGHT == 20

DISTRACTION_SCORE_EXPLICIT_PENALTY == 10

DISTRACTION_SCORE_REJECTION_THRESHOLD == 50

MIN_VALID_BPM == 60

MAX_VALID_BPM == 200

----------------------------------------------------------------------------
(* Input space *)

\* At most this many optional fields of the candidate and of the constraints
\* together are given a non-default value by the caller.
MaxFieldsSet == 4

Mode == {"focus", "relax", "sleep", "meditation"}

\* Optional fields in the order: the candidate's bpm, is_instrumental, energy,
\* speechiness, instrumentalness, explicit, is_live, is_remaster, has_feat
\* (1..9), then the constraints' tempo_min, tempo_max, energy_min, energy_max,
\* no_vocals, avoid_live, avoid_remaster, avoid_feat (10..17).  The
\* candidate's required source is "spotify_features", as for a candidate
\* that comes with Spotify's audio features.
\* The values a caller gives field i; position 0 is the field's default.
FieldValues(i) ==
    CASE i = 1 -> <<Some(120), Some(130)>>
      [] i = 2 -> <<Some(TRUE), Some(FALSE)>>
      [] i = 3 -> <<Some(10), Some(30), Some(95)>>
      [] i = 4 -> <<Some(5), Some(80)>>
      [] i = 5 -> <<Some(50), Some(95)>>
      [] i \in {10, 11} -> <<Some(120), Some(140)>>
      [] i \in {12, 13} -> <<Some(30)>>
      [] OTHER -> <<TRUE>>

FieldDefault(i) == IF i \in {1, 2, 3, 4, 5, 10, 11, 12, 13} THEN None ELSE FALSE

\* the value of field i in the choice f (a sequence of positions)
Field(f, i) == IF f[i] = 0 THEN FieldDefault(i) ELSE FieldValues(i)[f[i]]

\* The choices for fields 1..i with at most k of them set, each paired with
\* the number of fields it sets.
RECURSIVE FieldChoices(_, _)
FieldChoices(i, k) ==
    IF i = 0 THEN {<< <<>>, 0 >>}
    ELSE LET before == FieldChoices(i - 1, k)
         IN {<<Append(r[1], 0), r[2]>> : r \in before}
            \cup {<<Append(r[1], v), r[2] + 1>> :
                     r \in {q \in before : q[2] < k},
                     v \in DOMAIN FieldValues(i)}

TrackMetadata(f) ==
    [bpm |-> Field(f, 1), is_instrumental |-> Field(f, 2),
     energy |-> Field(f, 3), speechiness |-> Field(f, 4),
     instrumentalness |-> Field(f, 5), explicit |-> Field(f, 6),
     is_live |-> Field(f, 7), is_remaster |-> Field(f, 8),
     has_feat |-> Field(f, 9), source |-> "spotify_features"]

ProtocolConstraints(m, f) ==
    [mode |-> m, tempo_min |-> Field(f, 10), tempo_max |-> Field(f, 11),
     energy_min |-> Field(f, 12), energy_max |-> Field(f, 13),
     no_vocals |-> Field(f, 14), avoid_live |-> Field(f, 15),
     avoid_remaster |-> Field(f, 16), avoid_feat |-> Field(f, 17)]

----------------------------------------------------------------------------
(* Search results and the BPM extractor.  A text is a sequence of          *)
(* one-character strings.                                                  *)

SearchTexts ==
    { <<"1","3","0"," ","B","P","M">>,
      <<"t","e","m","p","o",":"," ","1","2","0">>,
      <<"B","P","M",":"," ","3","0","0">>,
      <<"n","o"," ","t","e","m","p","o"," ","i","n","f","o">> }

Digits == {"0","1","2","3","4","5","6","7","8","9"}

DigitValue(ch) ==
    CASE ch = "0" -> 0 [] ch = "1" -> 1 [] ch = "2" -> 2 [] ch = "3" -> 3
      [] ch = "4" -> 4 [] ch = "5" -> 5 [] ch = "6" -> 6 [] ch = "7" -> 7
      [] ch = "8" -> 8 [] ch = "9" -> 9

Lower(ch) ==
    CASE ch = "B" -> "b" [] ch = "P" -> "p" [] ch = "M" -> "m"
      [] ch = "T" -> "t" [] ch = "E" -> "e" [] ch = "O" -> "o"
      [] OTHER -> ch

IsSpace(ch) == ch = " "

IsWordChar(ch) == ch \notin {" ", ":", ".", ",", "-", "(", ")"}

\* \b at the gap before position i (1 <= i <= Len(text) + 1)
WordBoundary(text, i) ==
    LET before == i > 1 /\ IsWordChar(text[i - 1])
        after == i <= Len(text) /\ IsWordChar(text[i])
    IN before # after

\* the literal word (lower case) matches at position i, ignoring case
LiteralAt(text, i, word) ==
    /\ i + Len(word) - 1 <= Len(text)
    /\ \A j \in 1..Len(word) : Lower(text[i + j - 1]) = word[j]

\* number of characters from position i on that satisfy the class, greedy
RECURSIVE RunLength(_, _, _)
RunLength(text, i, spaceOnly) ==
    IF i <= Len(text) /\ (IsSpace(text[i]) \/ (~spaceOnly /\ text[i] = ":"))
    THEN 1 + RunLength(text, i + 1, spaceOnly)
    ELSE 0

DigitsAt(text, i, n) ==
    /\ i + n - 1 <= Len(text)
    /\ \A j \in 0..(n - 1) : text[i + j] \in Digits

RECURSIVE Number(_, _, _)
Number(text, i, n) ==
    IF n = 0 THEN 0
    ELSE 10 * Number(text, i, n - 1) + DigitValue(text[i + n - 1])

\* (\d{2,3})\s*bpm at position i, with \b on both sides when bounded:
\* the lengths n of the digit group for which the whole pattern matches
DigitsThenBpm(text, i, bounded) ==
    { n \in {2, 3} :
        /\ DigitsAt(text, i, n)
        /\ bounded => WordBoundary(text, i)
        /\ LET j == i + n + RunLength(text, i + n, TRUE)
           IN /\ LiteralAt(text, j, <<"b","p","m">>)
              /\ bounded => WordBoundary(text, j + 3) }

\* word[:\s]+(\d{2,3}) at position i: the lengths n of the digit group
WordThenDigits(text, i, word) ==
    { n \in {2, 3} :
        /\ LiteralAt(text, i, word)
        /\ LET sep == RunLength(text, i + Len(word), FALSE)
           IN /\ sep >= 1
              /\ DigitsAt(text, i + Len(word) + sep, n) }

Max(S) == CHOOSE x \in S : \A y \in S : y <= x

\* re.findall(pattern, text, re.IGNORECASE)[0] as a number, for the four
\* patterns of _extract_bpm_from_text; None when findall returns no match.
FirstMatch(text, p) ==
    LET lens(i) ==
            CASE p = 1 -> DigitsThenBpm(text, i, TRUE)
              [] p = 2 -> WordThenDigits(text, i, <<"b","p","m">>)
              [] p = 3 -> WordThenDigits(text, i, <<"t","e","m","p","o">>)
              [] p = 4 -> DigitsThenBpm(text, i, FALSE)
        starts == {i \in 1..Len(text) : lens(i) # {}}
    IN IF starts = {} THEN None
       ELSE LET i == CHOOSE s \in starts : \A o \in starts : s <= o
                n == Max(lens(i))
                d == IF p \in {1, 4} THEN i
                     ELSE i + (IF p = 2 THEN 3 ELSE 5)
                          + RunLength(text, i + (IF p = 2 THEN 3 ELSE 5), FALSE)
            IN Some(Number(text, d, n))

RECURSIVE ExtractFrom(_, _)
ExtractFrom(text, p) ==
    IF p > 4 THEN None
    ELSE LET m == FirstMatch(text, p)
         IN IF m # None /\ MIN_VALID_BPM <= Val(m) /\ Val(m) <= MAX_VALID_BPM
            THEN m
            ELSE ExtractFrom(text, p + 1)

\* _extract_bpm_from_text with its first pattern left out
_extract_bpm_from_text_without_first_pattern(text) == ExtractFrom(text, 2)

_extract_bpm_from_text(text) == ExtractFrom(text, 1)

\* What the search tool does when invoked: it raises, or it returns a text.
SearchOutcome(raised, text) == [raised |-> raised, text |-> text]

\* _research_bpm answering a raised search with a default tempo
_research_bpm_default_on_error(outcome) ==
    IF outcome.raised THEN Some(120) ELSE _extract_bpm_from_text(outcome.text)

\* researcher.py lines 187-202: the value _research_bpm returns
_research_bpm(outcome) ==
    IF outcome.raised THEN None ELSE _extract_bpm_from_text(outcome.text)

----------------------------------------------------------------------------
(* The verifier: ResearcherAgent.verify_track and its helpers.  A reason   *)
(* string is the sequence of its words; numbers are formatted by ToString. *)

VerificationResult(approved, confidence, reasons, score) ==
    [approved |-> approved, confidence |-> confidence, reasons |-> reasons,
     distraction_score |-> score]

\* _is_instrumental reading speechiness before instrumentalness
_is_instrumental_speech_first(t) ==
    IF t.is_instrumental # None THEN Val(t.is_instrumental)
    ELSE IF t.speechiness # None
         THEN Val(t.speechiness) < SPEECHINESS_THRESHOLD
    ELSE IF t.instrumentalness # None
         THEN Val(t.instrumentalness) > INSTRUMENTALNESS_THRESHOLD
    ELSE FALSE

_is_instrumental(t) ==
    IF t.is_instrumental # None THEN Val(t.is_instrumental)
    ELSE IF t.instrumentalness # None
         THEN Val(t.instrumentalness) > INSTRUMENTALNESS_THRESHOLD
    ELSE IF t.speechiness # None
         THEN Val(t.speechiness) < SPEECHINESS_THRESHOLD
    ELSE FALSE

\* _calculate_distraction_score subtracting 1.0 from the instrumentalness
_calculate_distraction_score_inverse_flipped(t) ==
    LET speech == IF t.speechiness # None
                  THEN Val(t.speechiness) * DISTRACTION_SCORE_SPEECHINESS_WEIGHT
                  ELSE 0
        instr == IF t.instrumentalness # None
                 THEN (Val(t.instrumentalness) - 100)
                      * DISTRACTION_SCORE_INSTRUMENTALNESS_WEIGHT
                 ELSE 0
        energy == IF t.energy # None
                  THEN Val(t.energy) * DISTRACTION_SCORE_ENERGY_WEIGHT
                  ELSE 0
        explicit == IF t.explicit
                    THEN 100 * DISTRACTION_SCORE_EXPLICIT_PENALTY
                    ELSE 0
    IN Min(speech + instr + energy + explicit, 10000)

_calculate_distraction_score(t) ==
    LET speech == IF t.speechiness # None
                  THEN Val(t.speechiness) * DISTRACTION_SCORE_SPEECHINESS_WEIGHT
                  ELSE 0
        instr == IF t.instrumentalness # None
                 THEN (100 - Val(t.instrumentalness))
                      * DISTRACTION_SCORE_INSTRUMENTALNESS_WEIGHT
                 ELSE 0
        energy == IF t.energy # None
                  THEN Val(t.energy) * DISTRACTION_SCORE_ENERGY_WEIGHT
                  ELSE 0
        explicit == IF t.explicit
                    THEN 100 * DISTRACTION_SCORE_EXPLICIT_PENALTY
                    ELSE 0
    IN Min(speech + instr + energy + explicit, 10000)

\* researcher.py lines 48-51
InitialDistractionScore(t, c) ==
    IF c.mode = "focus" THEN Some(_calculate_distraction_score(t)) ELSE None

\* the reason strings of lines 59, 68, 77 and 86
VocalsReason == <<"Contains", "vocals", "-", "violates", "protocol", "constraint">>

LiveReason == <<"Live", "version", "-", "violates", "protocol", "constraint">>

RemasterReason == <<"Remastered", "version", "-", "violates", "protocol", "constraint">>

FeatReason == <<"Featured", "artists", "-", "violates", "protocol", "constraint">>

\* a hard-ban rejection carrying no confidence
HardBanZeroConfidence(reason, score) == VerificationResult(FALSE, 0, <<reason>>, score)

\* a hard-ban rejection (lines 55-61, 64-70, 73-79, 82-88)
HardBan(reason, score) == VerificationResult(FALSE, 100, <<reason>>, score)

\* HardBans with the remaster ban tested before the live ban
HardBansRemasterFirst(t, c, score) ==
    IF c.no_vocals /\ ~_is_instrumental(t) THEN Some(HardBan(VocalsReason, score))
    ELSE IF c.avoid_remaster /\ t.is_remaster
    THEN Some(HardBan(RemasterReason, score))
    ELSE IF c.avoid_live /\ t.is_live THEN Some(HardBan(LiveReason, score))
    ELSE IF c.avoid_feat /\ t.has_feat THEN Some(HardBan(FeatReason, score))
    ELSE None

\* HardBans without the live ban
HardBansLiveUnchecked(t, c, score) ==
    IF c.no_vocals /\ ~_is_instrumental(t) THEN Some(HardBan(VocalsReason, score))
    ELSE IF c.avoid_remaster /\ t.is_remaster
    THEN Some(HardBan(RemasterReason, score))
    ELSE IF c.avoid_feat /\ t.has_feat THEN Some(HardBan(FeatReason, score))
    ELSE None

\* researcher.py lines 53-88: the decision of the first hard ban that
\* fires, None when none does
HardBans(t, c, score) ==
    IF c.no_vocals /\ ~_is_instrumental(t) THEN Some(HardBan(VocalsReason, score))
    ELSE IF c.avoid_live /\ t.is_live THEN Some(HardBan(LiveReason, score))
    ELSE IF c.avoid_remaster /\ t.is_remaster
    THEN Some(HardBan(RemasterReason, score))
    ELSE IF c.avoid_feat /\ t.has_feat THEN Some(HardBan(FeatReason, score))
    ELSE None

\* TempoRequired holding whatever the constraints say
TempoRequiredAlways(c) == TRUE

\* researcher.py line 91
TempoRequired(c) == c.tempo_min # None \/ c.tempo_max # None

\* researcher.py lines 96-102
BpmUndetermined ==
    VerificationResult(FALSE, 0,
        << <<"Could", "not", "determine", "BPM", "-", "insufficient", "confidence">> >>,
        None)

\* BpmRange with exclusive bounds
BpmRangeExclusive(c, bpm) ==
    IF c.tempo_min # None /\ bpm <= Val(c.tempo_min)
    THEN Some(VerificationResult(FALSE, 100,
            << <<"BPM", ToString(bpm), "below", "minimum",
                 ToString(Val(c.tempo_min))>> >>, None))
    ELSE IF c.tempo_max # None /\ bpm >= Val(c.tempo_max)
    THEN Some(VerificationResult(FALSE, 100,
            << <<"BPM", ToString(bpm), "above", "maximum",
                 ToString(Val(c.tempo_max))>> >>, None))
    ELSE None

\* researcher.py lines 106-121: the range rejection for tempo bpm, None
\* when bpm passes
BpmRange(c, bpm) ==
    IF c.tempo_min # None /\ bpm < Val(c.tempo_min)
    THEN Some(VerificationResult(FALSE, 100,
            << <<"BPM", ToString(bpm), "below", "minimum",
                 ToString(Val(c.tempo_min))>> >>, None))
    ELSE IF c.tempo_max # None /\ bpm > Val(c.tempo_max)
    THEN Some(VerificationResult(FALSE, 100,
            << <<"BPM", ToString(bpm), "above", "maximum",
                 ToString(Val(c.tempo_max))>> >>, None))
    ELSE None

\* EnergyRange reading an absent energy as 0
EnergyRangeAbsentAsZero(t, c) ==
    LET e == IF t.energy # None THEN Val(t.energy) ELSE 0
    IN IF c.energy_min # None /\ e < Val(c.energy_min)
       THEN Some(VerificationResult(FALSE, 100,
               << <<"Energy", ToString(e), "below", "minimum",
                    ToString(Val(c.energy_min))>> >>, None))
       ELSE IF c.energy_max # None /\ e > Val(c.energy_max)
       THEN Some(VerificationResult(FALSE, 100,
               << <<"Energy", ToString(e), "above", "maximum",
                    ToString(Val(c.energy_max))>> >>, None))
       ELSE None

\* researcher.py lines 125-142
EnergyRange(t, c) ==
    IF c.energy_min # None /\ t.energy # None /\ Val(t.energy) < Val(c.energy_min)
    THEN Some(VerificationResult(FALSE, 100,
            << <<"Energy", ToString(Val(t.energy)), "below", "minimum",
                 ToString(Val(c.energy_min))>> >>, None))
    ELSE IF c.energy_max # None /\ t.energy # None
            /\ Val(t.energy) > Val(c.energy_max)
    THEN Some(VerificationResult(FALSE, 100,
            << <<"Energy", ToString(Val(t.energy)), "above", "maximum",
                 ToString(Val(c.energy_max))>> >>, None))
    ELSE None

\* DistractionCheck comparing the score in ten-thousandths with the
\* threshold in hundredths
DistractionCheckUnscaled(c, score) ==
    IF c.mode = "focus" /\ score # None
       /\ Val(score) > DISTRACTION_SCORE_REJECTION_THRESHOLD
    THEN Some(VerificationResult(FALSE, 90,
            << <<"Distraction", "score", ToString((Val(score) + 50) \div 100),
                 "too", "high">> >>, score))
    ELSE None

\* researcher.py lines 144-153; the score is printed with two decimals
DistractionCheck(c, score) ==
    IF c.mode = "focus" /\ score # None
       /\ Val(score) > 100 * DISTRACTION_SCORE_REJECTION_THRESHOLD
    THEN Some(VerificationResult(FALSE, 90,
            << <<"Distraction", "score", ToString((Val(score) + 50) \div 100),
                 "too", "high">> >>, score))
    ELSE None

\* Approve with a fresh reasons list instead of the one built so far
ApproveFreshReasons(reasons, score) ==
    VerificationResult(TRUE, 100,
        <<<<"All", "protocol", "constraints", "satisfied">>>>, score)

\* researcher.py lines 155-162, reasons being the list built so far
Approve(reasons, score) ==
    VerificationResult(TRUE, 100,
        Append(reasons, <<"All", "protocol", "constraints", "satisfied">>),
        score)

\* researcher.py lines 106-162: verify_track from the BPM range check on;
\* bpm is the local of that name (None when no tempo bound is set)
FromBpmRange(t, c, score, bpm) ==
    LET range == IF TempoRequired(c) THEN BpmRange(c, Val(bpm)) ELSE None
        reasons == IF TempoRequired(c)
                   THEN << <<"BPM", ToString(Val(bpm)), "within", "range">> >>
                   ELSE <<>>
        energy == EnergyRange(t, c)
        distraction == DistractionCheck(c, score)
    IN IF range # None THEN Val(range)
       ELSE IF energy # None THEN Val(energy)
       ELSE IF distraction # None THEN Val(distraction)
       ELSE Approve(reasons, score)

\* WriteBack marking the candidate instrumental as well
WriteBackMarksInstrumental(t, bpm) ==
    [t EXCEPT !.bpm = Some(bpm), !.source = "external_fallback",
              !.is_instrumental = Some(TRUE)]

\* WriteBack storing the tempo only
WriteBackTempoOnly(t, bpm) == [t EXCEPT !.bpm = Some(bpm)]

\* researcher.py lines 103-104
WriteBack(t, bpm) == [t EXCEPT !.bpm = Some(bpm), !.source = "external_fallback"]

----------------------------------------------------------------------------
(* The constraint composer (neuro_composer.py).  A genre name is a text.   *)

\* The per-mode constants imported from brain_radio.agents.constants
\* (neuro_composer.py lines 3-14), tempo in BPM and energy in hundredths.
FOCUS_MODE_TEMPO_MIN == 120

FOCUS_MODE_TEMPO_MAX == 140

FOCUS_MODE_MAX_ENERGY == 70

RELAX_MODE_TEMPO_MIN == 60

RELAX_MODE_TEMPO_MAX == 90

RELAX_MODE_MAX_ENERGY == 60

SLEEP_MODE_TEMPO_MAX == 60

SLEEP_MODE_MAX_ENERGY == 30

MEDITATION_MODE_TEMPO_MAX == 70

MEDITATION_MODE_MAX_ENERGY == 40

Techno == <<"T","e","c","h","n","o">>

Baroque == <<"B","a","r","o","q","u","e">>

PostRock == <<"P","o","s","t","-","R","o","c","k">>

Acoustic == <<"A","c","o","u","s","t","i","c">>

Ambient == <<"A","m","b","i","e","n","t">>

Jazz == <<"J","a","z","z">>

Drone == <<"D","r","o","n","e">>

NatureSounds == <<"N","a","t","u","r","e"," ","S","o","u","n","d","s">>

\* Genres with the hint added behind the defaults
GenresAppended(defaults, genre) ==
    IF genre = None THEN defaults ELSE Append(defaults, Val(genre))

\* neuro_composer.py lines 47, 62, 77, 92: the genres of a mode with the
\* defaults given, under the hint genre
Genres(defaults, genre) ==
    IF genre = None THEN defaults ELSE <<Val(genre)>>

\* the ValueError of neuro_composer.py line 97
UnknownMode(mode) == [error |-> <<"Unknown", "mode:", mode>>]

\* FocusConstraints lifting the vocal ban when a genre hint is given
FocusConstraintsHintLiftsVocalBan(genre) ==
    [mode |-> "focus",
     tempo_min |-> Some(FOCUS_MODE_TEMPO_MIN),
     tempo_max |-> Some(FOCUS_MODE_TEMPO_MAX),
     energy_min |-> None, energy_max |-> Some(FOCUS_MODE_MAX_ENERGY),
     no_vocals |-> genre = None, avoid_live |-> TRUE,
     avoid_remaster |-> TRUE, avoid_feat |-> TRUE,
     genres |-> Genres(<<Techno, Baroque, PostRock>>, genre),
     key_preference |-> None]

\* neuro_composer.py lines 36-49
FocusConstraints(genre) ==
    [mode |-> "focus",
     tempo_min |-> Some(FOCUS_MODE_TEMPO_MIN),
     tempo_max |-> Some(FOCUS_MODE_TEMPO_MAX),
     energy_min |-> None, energy_max |-> Some(FOCUS_MODE_MAX_ENERGY),
     no_vocals |-> TRUE, avoid_live |-> TRUE,
     avoid_remaster |-> TRUE, avoid_feat |-> TRUE,
     genres |-> Genres(<<Techno, Baroque, PostRock>>, genre),
     key_preference |-> None]

\* neuro_composer.py lines 51-64
RelaxConstraints(genre) ==
    [mode |-> "relax",
     tempo_min |-> Some(RELAX_MODE_TEMPO_MIN),
     tempo_max |-> Some(RELAX_MODE_TEMPO_MAX),
     energy_min |-> None, energy_max |-> Some(RELAX_MODE_MAX_ENERGY),
     no_vocals |-> FALSE, avoid_live |-> FALSE,
     avoid_remaster |-> FALSE, avoid_feat |-> FALSE,
     genres |-> Genres(<<Acoustic, Ambient, Jazz>>, genre),
     key_preference |-> Some("Major")]

\* neuro_composer.py lines 66-79
SleepConstraints(genre) ==
    [mode |-> "sleep",
     tempo_min |-> None,
     tempo_max |-> Some(SLEEP_MODE_TEMPO_MAX),
     energy_min |-> None, energy_max |-> Some(SLEEP_MODE_MAX_ENERGY),
     no_vocals |-> FALSE, avoid_live |-> TRUE,
     avoid_remaster |-> FALSE, avoid_feat |-> FALSE,
     genres |-> Genres(<<Ambient, Drone, NatureSounds>>, genre),
     key_preference |-> None]

\* neuro_composer.py lines 81-94
MeditationConstraints(genre) ==
    [mode |-> "meditation",
     tempo_min |-> None,
     tempo_max |-> Some(MEDITATION_MODE_TEMPO_MAX),
     energy_min |-> None, energy_max |-> Some(MEDITATION_MODE_MAX_ENERGY),
     no_vocals |-> TRUE, avoid_live |-> TRUE,
     avoid_remaster |-> FALSE, avoid_feat |-> FALSE,
     genres |-> Genres(<<Ambient, Drone, NatureSounds>>, genre),
     key_preference |-> None]

\* compose_constraints with the sleep mode given the relax mode's tempo floor
compose_constraints_sleep_floor(mode, genre) ==
    CASE mode = "focus" -> FocusConstraints(genre)
      [] mode = "relax" -> RelaxConstraints(genre)
      [] mode = "sleep" ->
           [SleepConstraints(genre) EXCEPT
               !.tempo_min = Some(RELAX_MODE_TEMPO_MIN)]
      [] mode = "meditation" -> MeditationConstraints(genre)
      [] OTHER -> UnknownMode(mode)

\* compose_constraints with a final else that composes for the relax mode
compose_constraints_else_relax(mode, genre) ==
    CASE mode = "focus" -> FocusConstraints(genre)
      [] mode = "sleep" -> SleepConstraints(genre)
      [] mode = "meditation" -> MeditationConstraints(genre)
      [] OTHER -> RelaxConstraints(genre)

\* neuro_composer.py lines 25-97: what compose_constraints returns, or the
\* error it raises
compose_constraints(mode, genre) ==
    CASE mode = "focus" -> FocusConstraints(genre)
      [] mode = "relax" -> RelaxConstraints(genre)
      [] mode = "sleep" -> SleepConstraints(genre)
      [] mode = "meditation" -> MeditationConstraints(genre)
      [] OTHER -> UnknownMode(mode)

\* The genre hints a caller passes: no hint, or a word between at most
\* MaxPad blanks on each side; the empty word gives the empty and the
\* blank hints.
MaxPad == 1

Pad(n) == [i \in 1..n |-> " "]

HintWords == {<<>>, Jazz, Techno, Ambient, <<"L","o"," ","F","i">>}

GenreHints ==
    {None} \cup {Some(Pad(l) \o w \o Pad(r)) :
                    w \in HintWords, l \in 0..MaxPad, r \in 0..MaxPad}

\* The modes a caller passes: the members of Mode (a str enumeration, so a
\* member equals its value) and a value outside the enumeration.
ModeValues == Mode \cup {"party"}

----------------------------------------------------------------------------
(* The orchestrator (supervisor.py).  The run state is the SupervisorState *)
(* dict; an error message is a string.                                     *)

\* researcher.py lines 53-162: verify_track once the score is computed, bpm
\* being what _research_bpm returns if it is called; the decision, with the
\* candidate as the call leaves it
VerifyWith(t, c, score, bpm) ==
    IF HardBans(t, c, score) # None
    THEN [track |-> t] @@ Val(HardBans(t, c, score))
    ELSE IF TempoRequired(c) /\ t.bpm = None
    THEN IF bpm = None THEN [track |-> t] @@ BpmUndetermined
         ELSE [track |-> WriteBack(t, Val(bpm))]
              @@ FromBpmRange(WriteBack(t, Val(bpm)), c, score, bpm)
    ELSE [track |-> t] @@ FromBpmRange(t, c, score, t.bpm)

\* researcher.py lines 37-162: the decision verify_track returns for the
\* candidate t under the constraints c when the search tool, if invoked,
\* does what answer says
verify_track(t, c, answer) ==
    VerifyWith(t, c, InitialDistractionScore(t, c), _research_bpm(answer))

\* NextStage leaving the graph once the error slot is set
NextStageUnlessError(node, s) ==
    IF s.error # None THEN "END"
    ELSE CASE node = "compose_constraints" -> "generate_candidates"
           [] node = "generate_candidates" -> "verify_tracks"
           [] node = "verify_tracks" -> "filter_approved"
           [] node = "filter_approved" -> "build_result"
           [] node = "build_result" -> "END"

\* supervisor.py lines 58-63: the edge that leaves a node; no edge looks
\* at the run state s
NextStage(node, s) ==
    CASE node = "compose_constraints" -> "generate_candidates"
      [] node = "generate_candidates" -> "verify_tracks"
      [] node = "verify_tracks" -> "filter_approved"
      [] node = "filter_approved" -> "build_result"
      [] node = "build_result" -> "END"

\* supervisor.py lines 77-85
initial_state(request) ==
    [request |-> request, constraints |-> None, candidate_tracks |-> <<>>,
     verified_tracks |-> <<>>, approved_tracks |-> <<>>, result |-> None,
     error |-> None]

\* supervisor.py lines 97-104
_compose_constraints(s) ==
    [s EXCEPT !.constraints =
        Some(compose_constraints(s.request.mode, s.request.genre))]

\* supervisor.py lines 106-121
_generate_candidates(s) ==
    IF s.constraints = None
    THEN [s EXCEPT !.error = Some("Constraints not composed")]
    ELSE [s EXCEPT !.candidate_tracks = <<>>]

\* the decisions of lines 130-133 for the candidates, answers[i] being what
\* the search tool does in the i-th call of verify_track
Verified(candidates, c, answers) ==
    [i \in 1..Len(candidates) |-> verify_track(candidates[i], c, answers[i])]

\* WithVerified putting each decision in front of the earlier ones
WithVerifiedPrepended(s, verified) ==
    [s EXCEPT !.verified_tracks =
                  [i \in 1..Len(verified) |-> verified[Len(verified) + 1 - i]],
              !.candidate_tracks =
                  [i \in 1..Len(verified) |-> verified[i].track]]

\* supervisor.py line 135, and the candidates as verify_track left them:
\* it changes the object it is given, which stays in the candidate list
WithVerified(s, verified) ==
    [s EXCEPT !.verified_tracks = verified,
              !.candidate_tracks =
                  [i \in 1..Len(verified) |-> verified[i].track]]

\* supervisor.py lines 126-128
ConstraintsNotComposed(s) ==
    [s EXCEPT !.error = Some("Constraints not composed")]

\* _verify_tracks emptying the candidate list when the constraints are missing
_verify_tracks_emptying(s, answers) ==
    IF s.constraints = None
    THEN [ConstraintsNotComposed(s) EXCEPT !.candidate_tracks = <<>>]
    ELSE WithVerified(s, Verified(s.candidate_tracks, Val(s.constraints),
                                  answers))

\* _verify_tracks putting each decision in front of the earlier ones
_verify_tracks_prepending(s, answers) ==
    IF s.constraints = None
    THEN ConstraintsNotComposed(s)
    ELSE WithVerifiedPrepended(s, Verified(s.candidate_tracks,
                                           Val(s.constraints), answers))

\* supervisor.py lines 123-136
_verify_tracks(s, answers) ==
    IF s.constraints = None
    THEN ConstraintsNotComposed(s)
    ELSE WithVerified(s, Verified(s.candidate_tracks, Val(s.constraints),
                                  answers))

\* supervisor.py lines 131-132: the tracks _verify_tracks hands to
\* verify_track
VerifierCalls(s) ==
    IF s.constraints = None THEN <<>> ELSE s.candidate_tracks

\* ApprovedTracks keeping the track of every decision
ApprovedTracksUnfiltered(verified) ==
    [i \in 1..Len(verified) |-> verified[i].track]

\* supervisor.py line 140
ApprovedTracks(verified) ==
    LET kept == SelectSeq(verified, LAMBDA vr : vr.approved)
    IN [i \in 1..Len(kept) |-> kept[i].track]

\* supervisor.py lines 138-142
_filter_approved(s) ==
    [s EXCEPT !.approved_tracks = ApprovedTracks(s.verified_tracks)]

\* supervisor.py line 149
RECURSIVE TotalDuration(_)
TotalDuration(tracks) ==
    IF tracks = <<>> THEN 0
    ELSE (IF Head(tracks).duration_ms = None THEN 0
          ELSE Val(Head(tracks).duration_ms))
         + TotalDuration(Tail(tracks))

\* PlaylistResult counting every decision as a rejection
PlaylistResultRejectedAll(s) ==
    [mode |-> s.request.mode,
     tracks |-> s.approved_tracks,
     total_duration_ms |-> TotalDuration(s.approved_tracks),
     verification_summary |->
        [total_candidates |-> Len(s.candidate_tracks),
         approved |-> Len(s.approved_tracks),
         rejected |-> Len(s.verified_tracks)]]

\* supervisor.py lines 151-162
PlaylistResult(s) ==
    [mode |-> s.request.mode,
     tracks |-> s.approved_tracks,
     total_duration_ms |-> TotalDuration(s.approved_tracks),
     verification_summary |->
        [total_candidates |-> Len(s.candidate_tracks),
         approved |-> Len(s.approved_tracks),
         rejected |-> Len(s.verified_tracks) - Len(s.approved_tracks)]]

\* supervisor.py lines 144-165
_build_result(s) == [s EXCEPT !.result = Some(PlaylistResult(s))]

\* the truth value Python gives an error slot: None and "" are false
Truthy(error) == error # None /\ Val(error) # ""

\* generate_playlist ignoring the error slot when a result was built
generate_playlist_result_first(final_state) ==
    IF final_state.result # None
    THEN [raised |-> None, returned |-> final_state.result]
    ELSE IF Truthy(final_state.error)
    THEN [raised |-> Some(<<"Supervisor error:", Val(final_state.error)>>),
          returned |-> None]
    ELSE [raised |-> Some(<<"Supervisor did not produce a result">>),
          returned |-> None]

\* supervisor.py lines 89-95: what generate_playlist does with the final
\* state of the graph
generate_playlist(final_state) ==
    IF Truthy(final_state.error)
    THEN [raised |-> Some(<<"Supervisor error:", Val(final_state.error)>>),
          returned |-> None]
    ELSE IF final_state.result = None
    THEN [raised |-> Some(<<"Supervisor did not produce a result">>),
          returned |-> None]
    ELSE [raised |-> None, returned |-> final_state.result]

\* The nodes in the order of the edges (supervisor.py lines 51-63).
Stages ==
    <<"compose_constraints", "generate_candidates", "verify_tracks",
      "filter_approved", "build_result">>

\* The requests a caller passes; PlaylistRequest admits only members of Mode.
Requests ==
    {[mode |-> m, genre |-> g, duration_minutes |-> 60] :
        m \in Mode, g \in {None, Some(Jazz)}}

\* a candidate with the defaults of TrackMetadata
BaseTrack(id, duration) ==
    [spotify_id |-> id, duration_ms |-> duration, bpm |-> None,
     is_instrumental |-> None, energy |-> None, speechiness |-> None,
     instrumentalness |-> None, explicit |-> FALSE, is_live |-> FALSE,
     is_remaster |-> FALSE, has_feat |-> FALSE, source |-> "spotify_features"]

\* The candidates a list is made of: the one of the test of
\* _verify_tracks, one without a tempo and a slow live one.
CandidatePool ==
    { [BaseTrack("test1", None) EXCEPT
          !.bpm = Some(130), !.is_instrumental = Some(TRUE)],
      [BaseTrack("test2", Some(180000)) EXCEPT
          !.is_instrumental = Some(TRUE)],
      [BaseTrack("test3", Some(200000)) EXCEPT
          !.bpm = Some(65), !.is_live = TRUE] }

\* A candidate list holds at most this many candidates.
MaxCandidates == 2

\* the candidate lists: distinct track objects in any order
CandidateLists ==
    UNION { {cs \in [1..n -> CandidatePool] :
                \A i, j \in 1..n : cs[i] = cs[j] => i = j} :
            n \in 0..MaxCandidates }

\* what the search tool can do in one call of verify_track
SearchAnswers ==
    {SearchOutcome(FALSE, text) : text \in SearchTexts}
    \cup {SearchOutcome(TRUE, <<>>)}

\* the error slots a run state is handed over with
ErrorValues == {None, Some(""), Some("Test error")}

\* The run states a node or the graph is invoked with: any request,
\* constraints missing or composed, any candidate list and error slot, and
\* the later slots empty or as the nodes fill them.
SupervisorStates ==
    LET fresh ==
          UNION { {[request |-> r, constraints |-> c, candidate_tracks |-> cs,
                    verified_tracks |-> <<>>, approved_tracks |-> <<>>,
                    result |-> None, error |-> e] :
                      c \in {None, Some(compose_constraints(r.mode, r.genre))},
                      cs \in CandidateLists, e \in ErrorValues} :
                  r \in Requests }
        raises(s) == [i \in 1..Len(s.candidate_tracks) |->
                         SearchOutcome(TRUE, <<>>)]
        verified ==
          fresh \cup {[_verify_tracks(s, raises(s)) EXCEPT !.error = s.error] :
                         s \in fresh}
        filtered == verified \cup {_filter_approved(s) : s \in verified}
    IN filtered \cup {_build_result(s) : s \in filtered}

----------------------------------------------------------------------------
(* The HTTP API's session handling (api/main.py): the OAuth callback and   *)
(* the token endpoint over the module-level session store.  Times are      *)
(* whole seconds.  The session store is a function from session ids to     *)
(* session records; an id is a number standing for a random url-safe       *)
(* token.                                                                  *)

TOKEN_EXPIRY_SECONDS == 3600

\* at most this many sessions are created
MaxSessions == 2

\* the clock is advanced at most this many times
MaxTicks == 1

SessionIds == 1..MaxSessions

\* what an httpx request did: it raised, or it returned a response
HttpOutcome(raised, status_code, json) ==
    [raised |-> raised, status_code |-> status_code, json |-> json]

\* a request that fails in transit
Raises == HttpOutcome(TRUE, 0, None)

\* the token endpoint's answers, to an authorization code (grant 1) and to
\* a refresh token (grant 2): a transport error, a rejection, and bodies
\* with and without the optional keys
TokenJson(grant) ==
    { [access_token |-> Some(<<"access", grant>>), refresh_token |-> r,
       expires_in |-> e] :
        r \in {None, Some(<<"refresh", grant>>)}, e \in {None, Some(1)} }
      \cup {[access_token |-> None, refresh_token |-> None, expires_in |-> None]}

TokenOutcomes(grant) ==
    {Raises, HttpOutcome(FALSE, 400, None)}
        \cup {HttpOutcome(FALSE, 200, Some(j)) : j \in TokenJson(grant)}

\* the answers of the user-info endpoint
UserOutcomes ==
    {Raises, HttpOutcome(FALSE, 401, None)}
        \cup {HttpOutcome(FALSE, 200,
                           Some([id |-> Some("user"), product |-> Some("premium")]))}

\* raise HTTPException(status_code, detail): the answer, the store as it is
HTTPException(status_code, detail, store, requests) ==
    [status_code |-> status_code, detail |-> Some(detail), body |-> None,
     set_cookie |-> None, sessions |-> store, requests |-> requests]

\* an exception no handler catches: the framework answers 500
Unhandled(store, requests) ==
    [status_code |-> 500, detail |-> Some(<<"Internal Server Error">>),
     body |-> None, set_cookie |-> None, sessions |-> store,
     requests |-> requests]

\* the session record of lines 167-173
Session(tokens, user_data, now) ==
    [access_token |-> Val(tokens.access_token),
     refresh_token |-> tokens.refresh_token,
     user_id |-> user_data.id,
     is_premium |-> user_data.product = Some("premium"),
     expires_at |-> now + (IF tokens.expires_in = None THEN TOKEN_EXPIRY_SECONDS
                           ELSE Val(tokens.expires_in))]

\* the callback creating the session before the user-info status is tested
callback_session_before_user_check(code, state_param, error, stored_state, exchange, user_info, session_id, now, store) ==
    IF Truthy(error)
    THEN HTTPException(400, <<"OAuth error:", Val(error)>>, store, 0)
    ELSE IF ~Truthy(code) \/ ~Truthy(state_param)
    THEN HTTPException(400, <<"Missing code or state parameter">>, store, 0)
    ELSE IF ~Truthy(stored_state) \/ stored_state # state_param
    THEN HTTPException(400, <<"Invalid state parameter">>, store, 0)
    ELSE IF exchange.raised THEN Unhandled(store, 1)
    ELSE IF exchange.status_code # 200
    THEN HTTPException(400, <<"Token exchange failed:", "text">>, store, 1)
    ELSE IF Val(exchange.json).access_token = None THEN Unhandled(store, 1)
    ELSE IF user_info.raised THEN Unhandled(store, 2)
    ELSE IF user_info.status_code # 200
    THEN HTTPException(400, <<"Failed to fetch user info">>,
                       store @@ (session_id :>
                           Session(Val(exchange.json),
                                   [id |-> None, product |-> None], now)), 2)
    ELSE [status_code |-> 307, detail |-> None, body |-> None,
          set_cookie |-> Some(session_id),
          sessions |-> store @@ (session_id :>
                          Session(Val(exchange.json), Val(user_info.json), now)),
          requests |-> 2]

\* callback (lines 112-182): the answer and the session store it leaves,
\* given the query parameters, the oauth_state cookie, what the two
\* upstream requests do when they are sent, the token drawn for the session
\* id and the time; requests counts the upstream requests sent.  A
\* RedirectResponse has status 307.
callback(code, state_param, error, stored_state, exchange, user_info, session_id, now, store) ==
    IF Truthy(error)
    THEN HTTPException(400, <<"OAuth error:", Val(error)>>, store, 0)
    ELSE IF ~Truthy(code) \/ ~Truthy(state_param)
    THEN HTTPException(400, <<"Missing code or state parameter">>, store, 0)
    ELSE IF ~Truthy(stored_state) \/ stored_state # state_param
    THEN HTTPException(400, <<"Invalid state parameter">>, store, 0)
    ELSE IF exchange.raised THEN Unhandled(store, 1)
    ELSE IF exchange.status_code # 200
    THEN HTTPException(400, <<"Token exchange failed:", "text">>, store, 1)
    ELSE IF Val(exchange.json).access_token = None THEN Unhandled(store, 1)
    ELSE IF user_info.raised THEN Unhandled(store, 2)
    ELSE IF user_info.status_code # 200
    THEN HTTPException(400, <<"Failed to fetch user info">>, store, 2)
    ELSE [status_code |-> 307, detail |-> None, body |-> None,
          set_cookie |-> Some(session_id),
          sessions |-> store @@ (session_id :>
                          Session(Val(exchange.json), Val(user_info.json), now)),
          requests |-> 2]

\* the refresh dropping the stored refresh token when no new one came
RefreshedForgetful(session, new_tokens, now) ==
    [session EXCEPT
        !.access_token = Val(new_tokens.access_token),
        !.expires_at = now + (IF new_tokens.expires_in = None
                              THEN TOKEN_EXPIRY_SECONDS
                              ELSE Val(new_tokens.expires_in)),
        !.refresh_token = new_tokens.refresh_token]

\* the session after a successful refresh (lines 213-217)
Refreshed(session, new_tokens, now) ==
    [session EXCEPT
        !.access_token = Val(new_tokens.access_token),
        !.expires_at = now + (IF new_tokens.expires_in = None
                              THEN TOKEN_EXPIRY_SECONDS
                              ELSE Val(new_tokens.expires_in)),
        !.refresh_token = IF new_tokens.refresh_token # None
                          THEN new_tokens.refresh_token ELSE @]

Ok(access_token, store, requests) ==
    [status_code |-> 200, detail |-> None, body |-> Some(access_token),
     set_cookie |-> None, sessions |-> store, requests |-> requests]

\* get_token (lines 185-219): the answer and the session store it leaves,
\* given the session_id cookie, what the refresh request does when it is
\* sent, and the time
get_token(session_id, refresh, now, store) ==
    IF session_id = None \/ Val(session_id) \notin DOMAIN store
    THEN HTTPException(401, <<"Not authenticated">>, store, 0)
    ELSE LET id == Val(session_id)
             session == store[id]
         IN IF now >= session.expires_at
            THEN IF ~Truthy(session.refresh_token)
                 THEN HTTPException(401, <<"Session expired">>, store, 0)
                 ELSE IF refresh.raised THEN Unhandled(store, 1)
                 ELSE IF refresh.status_code # 200
                 THEN HTTPException(401, <<"Failed to refresh token">>, store, 1)
                 ELSE IF Val(refresh.json).access_token = None
                 THEN Unhandled(store, 1)
                 ELSE LET renewed == Refreshed(session, Val(refresh.json), now)
                      IN Ok(renewed.access_token,
                            [store EXCEPT ![id] = renewed], 1)
            ELSE Ok(session.access_token, store, 0)

\* no _calculate_distraction_score call of its own is under way
ScoreIdle ==
    /\ score_track = None
    /\ score_pc = "idle"
    /\ score_result = None

\* no API request has been served
ApiIdle ==
    /\ sessions = <<>>
    /\ clock = 0
    /\ api_call = None
    /\ api_response = None

----------------------------------------------------------------------------
(* Behaviour *)

\* no compose_constraints call is under way
ComposerIdle ==
    /\ composer_call = None
    /\ composer_pc = "idle"
    /\ composed = None
    /\ composer_error = None

\* no verify_track call is under way
VerifierIdle ==
    /\ track = None
    /\ constraints = None
    /\ track0 = None
    /\ pc = "idle"
    /\ distraction_score = None
    /\ decision = None
    /\ searches = 0
    /\ search_outcome = None

\* no _extract_bpm_from_text call of its own is under way
ExtractorIdle ==
    /\ extractor_text = <<>>
    /\ extractor_pc = "idle"
    /\ extractor_result = <<>>

\* no supervisor run is under way
SupervisorIdle ==
    /\ state = None
    /\ state0 = None
    /\ entry = "idle"
    /\ stage = "idle"
    /\ walk = <<>>
    /\ verifier_calls = <<>>
    /\ playlist_outcome = None

Init ==
    /\ \E m \in Mode, f \in FieldChoices(17, MaxFieldsSet) :
          /\ track = TrackMetadata(f[1])
          /\ constraints = ProtocolConstraints(m, f[1])
    /\ track0 = track
    /\ pc = "call"
    /\ distraction_score = None
    /\ decision = None
    /\ searches = 0
    /\ search_outcome = None
    /\ ComposerIdle
    /\ SupervisorIdle
    /\ ExtractorIdle
    /\ ApiIdle
    /\ ScoreIdle

\* verify_track from its entry to its return or to the await of line 95
VerifyTrack ==
    /\ pc = "call"
    /\ LET score == InitialDistractionScore(track, constraints)
           ban == HardBans(track, constraints, score)
       IN /\ distraction_score' = score
          /\ IF ban # None
             THEN /\ decision' = ban
                  /\ pc' = "done"
                  /\ searches' = searches
             ELSE IF TempoRequired(constraints) /\ track.bpm = None
             THEN /\ decision' = decision
                  /\ pc' = "research"
                  /\ searches' = searches + 1
             ELSE /\ decision' = Some(FromBpmRange(track, constraints, score,
                                                   track.bpm))
                  /\ pc' = "done"
                  /\ searches' = searches
    /\ UNCHANGED <<track, constraints, search_outcome, track0>>
    /\ UNCHANGED <<composerVars, supervisorVars, extractorVars, apiVars, scoreVars>>

\* researcher.py lines 95-162 once _research_bpm has returned bpm
Resume(bpm) ==
    IF bpm = None
    THEN /\ decision' = Some(BpmUndetermined)
         /\ track' = track
    ELSE /\ track' = WriteBack(track, Val(bpm))
         /\ decision' = Some(FromBpmRange(track', constraints,
                                          distraction_score, bpm))

\* the search tool answers with a text (researcher.py lines 189-198)
SearchReturns ==
    /\ pc = "research"
    /\ \E text \in SearchTexts :
          /\ search_outcome' = Some(SearchOutcome(FALSE, text))
          /\ Resume(_research_bpm(SearchOutcome(FALSE, text)))
    /\ pc' = "done"
    /\ UNCHANGED <<constraints, distraction_score, searches, track0>>
    /\ UNCHANGED <<composerVars, supervisorVars, extractorVars, apiVars, scoreVars>>

\* the search tool raises (researcher.py lines 199-202)
SearchRaises ==
    /\ pc = "research"
    /\ search_outcome' = Some(SearchOutcome(TRUE, <<>>))
    /\ Resume(_research_bpm(SearchOutcome(TRUE, <<>>)))
    /\ pc' = "done"
    /\ UNCHANGED <<constraints, distraction_score, searches, track0>>
    /\ UNCHANGED <<composerVars, supervisorVars, extractorVars, apiVars, scoreVars>>

Next == VerifyTrack \/ SearchReturns \/ SearchRaises

Spec == Init /\ [][Next]_vars

\* The search tool never answers: the await of researcher.py line 190 (or
\* of line 195) never completes, and nothing in lines 187-202 bounds it.
SearchNeverResponds ==
    /\ pc = "research"
    /\ pc' = "blocked"
    /\ UNCHANGED <<track, constraints, distraction_score, decision, searches,
                   search_outcome, track0>>
    /\ UNCHANGED <<composerVars, supervisorVars, extractorVars, apiVars, scoreVars>>

NextLive == SearchNeverResponds \/ SearchRaises \/ SearchReturns \/ VerifyTrack

\* In the runs checked for termination at most this many optional fields of
\* the candidate and of the constraints together are set.
MaxFieldsSetLive == 1

InitLive ==
    /\ \E m \in Mode, f \in FieldChoices(17, MaxFieldsSetLive) :
          /\ track = TrackMetadata(f[1])
          /\ constraints = ProtocolConstraints(m, f[1])
    /\ track0 = track
    /\ pc = "call"
    /\ distraction_score = None
    /\ decision = None
    /\ searches = 0
    /\ search_outcome = None
    /\ ComposerIdle
    /\ SupervisorIdle
    /\ ExtractorIdle
    /\ ApiIdle
    /\ ScoreIdle

\* verify_track on an event loop that runs every step that can be taken,
\* with a search tool that answers, raises or stays silent.
SpecLive == InitLive /\ [][NextLive]_vars /\ WF_vars(NextLive)

\* A call of compose_constraints with any mode value and any hint.
InitComposer ==
    /\ \E mode \in ModeValues, genre \in GenreHints :
          composer_call = Some([mode |-> mode, genre |-> genre])
    /\ composer_pc = "call"
    /\ composed = None
    /\ composer_error = None
    /\ VerifierIdle
    /\ SupervisorIdle
    /\ ExtractorIdle
    /\ ApiIdle
    /\ ScoreIdle

\* compose_constraints from its entry to its return or its raise
ComposeConstraints ==
    /\ composer_pc = "call"
    /\ LET call == Val(composer_call)
           out == compose_constraints(call.mode, call.genre)
       IN IF "error" \in DOMAIN out
          THEN /\ composer_pc' = "raised"
               /\ composer_error' = Some(out.error)
               /\ composed' = None
          ELSE /\ composer_pc' = "returned"
               /\ composer_error' = None
               /\ composed' = Some(out)
    /\ UNCHANGED composer_call
    /\ UNCHANGED <<verifierVars, supervisorVars, extractorVars, apiVars, scoreVars>>

NextComposer == ComposeConstraints

SpecComposer == InitComposer /\ [][NextComposer]_vars

\* A supervisor run starts in one of four ways:
\*   "generate_playlist"  generate_playlist(request) invokes the graph on
\*                        its initial state and judges the final state;
\*   "graph"              the compiled graph is invoked on a given state;
\*   "node"               one node function is called with a given state, as
\*                        tests/test_supervisor_errors.py lines 65-125 do;
\*   "patched"            generate_playlist judges the final state a patched
\*                        graph hands back (the same tests, lines 15-62).
InitSupervisor ==
    /\ \E start \in
            {<<"generate_playlist", "compose_constraints">>,
             <<"graph", "compose_constraints">>, <<"patched", "END">>}
            \cup {<<"node", Stages[i]>> : i \in DOMAIN Stages} :
          /\ entry = start[1]
          /\ stage = start[2]
    /\ state \in IF entry = "generate_playlist"
                 THEN {initial_state(request) : request \in Requests}
                 ELSE SupervisorStates
    /\ state0 = state
    /\ walk = <<>>
    /\ verifier_calls = <<>>
    /\ playlist_outcome = None
    /\ VerifierIdle
    /\ ComposerIdle
    /\ ExtractorIdle
    /\ ApiIdle
    /\ ScoreIdle

\* the node at hand runs, turns the run state into s, hands calls to the
\* verifier, and the run moves on: along the node's edge, or back to the
\* caller of the node function
RunNode(node, s, calls) ==
    /\ stage = node
    /\ state' = s
    /\ walk' = Append(walk, node)
    /\ verifier_calls' = verifier_calls \o calls
    /\ stage' = IF entry = "node" THEN "node returned" ELSE NextStage(node, s)
    /\ UNCHANGED <<state0, entry, playlist_outcome>>
    /\ UNCHANGED <<verifierVars, composerVars, extractorVars, apiVars, scoreVars>>

StageComposeConstraints ==
    RunNode("compose_constraints", _compose_constraints(state), <<>>)

StageGenerateCandidates ==
    RunNode("generate_candidates", _generate_candidates(state), <<>>)

\* each call of verify_track meets a search tool that answers or raises
StageVerifyTracks ==
    \E answers \in [1..Len(state.candidate_tracks) -> SearchAnswers] :
        RunNode("verify_tracks", _verify_tracks(state, answers),
                VerifierCalls(state))

StageFilterApproved ==
    RunNode("filter_approved", _filter_approved(state), <<>>)

StageBuildResult ==
    RunNode("build_result", _build_result(state), <<>>)

\* supervisor.py lines 87-95: the graph has handed back its final state
GeneratePlaylistEnds ==
    /\ stage = "END"
    /\ entry \in {"generate_playlist", "patched"}
    /\ playlist_outcome' = Some(generate_playlist(state))
    /\ stage' = IF Val(playlist_outcome').raised # None THEN "raised" ELSE "returned"
    /\ UNCHANGED <<state, state0, entry, walk, verifier_calls>>
    /\ UNCHANGED <<verifierVars, composerVars, extractorVars, apiVars, scoreVars>>

NextSupervisor ==
    \/ StageComposeConstraints
    \/ StageGenerateCandidates
    \/ StageVerifyTracks
    \/ StageFilterApproved
    \/ StageBuildResult
    \/ GeneratePlaylistEnds

SpecSupervisor == InitSupervisor /\ [][NextSupervisor]_vars

\* The pieces a text handed to the extractor is made of.
Tokens ==
    { <<"1","2","0">>, <<"3","0","0">>, <<"1","3","0","0">>, <<"4","5">>,
      <<"B","P","M">>, <<"b","p","m">>, <<"t","e","m","p","o">>, <<":">>, <<" ">>, <<"x">> }

\* A text is made of at most this many pieces.
MaxTokens == 4

RECURSIVE Flatten(_)
Flatten(pieces) ==
    IF pieces = <<>> THEN <<>> ELSE Head(pieces) \o Flatten(Tail(pieces))

\* the texts made of at most limit pieces
Texts(limit) ==
    UNION { {Flatten(pieces) : pieces \in [1..n -> Tokens]} : n \in 0..limit }

\* A call of _extract_bpm_from_text with any text.
InitExtractor ==
    /\ extractor_text \in Texts(MaxTokens)
    /\ extractor_pc = "call"
    /\ extractor_result = <<>>
    /\ VerifierIdle
    /\ ComposerIdle
    /\ SupervisorIdle
    /\ ApiIdle
    /\ ScoreIdle

\* _extract_bpm_from_text from its entry to its return (researcher.py lines
\* 204-225; float() of two or three digits does not raise)
ExtractBpm ==
    /\ extractor_pc = "call"
    /\ extractor_pc' = "returned"
    /\ extractor_result' = <<_extract_bpm_from_text(extractor_text)>>
    /\ UNCHANGED extractor_text
    /\ UNCHANGED <<verifierVars, composerVars, supervisorVars, apiVars, scoreVars>>

NextExtractor == ExtractBpm

SpecExtractor == InitExtractor /\ [][NextExtractor]_vars

----------------------------------------------------------------------------
(* The API serving requests: each request is served in one step.  The      *)
(* query parameters and cookies are whatever a client sends.               *)

\* a callback request: the query parameters and the oauth_state cookie
CallbackRequest(code, state_param, error, stored_state) ==
    [code |-> code, state |-> state_param, error |-> error,
     stored_state |-> stored_state]

\* the request of a completed login, and that request with one part
\* changed: an error parameter added (empty or not), the code or the state
\* missing, another state, the cookie missing
CallbackRequests ==
    LET x == Some("x")
    IN { CallbackRequest(x, x, None, x),
         CallbackRequest(x, x, Some(""), x),
         CallbackRequest(x, x, Some("access_denied"), x),
         CallbackRequest(None, x, None, x),
         CallbackRequest(x, None, None, x),
         CallbackRequest(x, Some("y"), None, x),
         CallbackRequest(x, x, None, None) }

SessionCookies == {None} \cup {Some(id) : id \in 0..MaxSessions}

InitApi ==
    /\ sessions = <<>>
    /\ clock = 0
    /\ api_call = None
    /\ api_response = None
    /\ VerifierIdle
    /\ ComposerIdle
    /\ SupervisorIdle
    /\ ExtractorIdle
    /\ ScoreIdle

\* the session id the next session gets: one that is not in use
FreshSessionId ==
    IF SessionIds \ DOMAIN sessions = {} THEN 0
    ELSE CHOOSE id \in SessionIds \ DOMAIN sessions :
            \A other \in SessionIds \ DOMAIN sessions : id <= other

\* GET /api/auth/callback; what an upstream request does is drawn only
\* when the request is sent
Callback ==
    \E q \in CallbackRequests :
      \E exchange \in
            IF callback(q.code, q.state, q.error, q.stored_state, Raises, Raises,
                        FreshSessionId, clock, sessions).requests = 0
            THEN {Raises} ELSE TokenOutcomes(1) :
        \E user_info \in
              IF callback(q.code, q.state, q.error, q.stored_state, exchange,
                          Raises, FreshSessionId, clock, sessions).requests < 2
              THEN {Raises} ELSE UserOutcomes :
          LET r == callback(q.code, q.state, q.error, q.stored_state, exchange,
                            user_info, FreshSessionId, clock, sessions)
          IN /\ r.status_code = 307 => FreshSessionId # 0
             /\ sessions' = r.sessions
             /\ api_call' = Some([handler |-> "callback", request |-> q,
                                  exchange |-> IF r.requests >= 1
                                               THEN Some(exchange) ELSE None,
                                  user_info |-> IF r.requests >= 2
                                                THEN Some(user_info) ELSE None])
             /\ api_response' = Some([status_code |-> r.status_code,
                                      detail |-> r.detail, body |-> r.body,
                                      set_cookie |-> r.set_cookie])
             /\ UNCHANGED clock
             /\ UNCHANGED <<verifierVars, composerVars, supervisorVars,
                            extractorVars, scoreVars>>

\* GET /api/auth/token
GetToken ==
    \E session_id \in SessionCookies :
      \E refresh \in
            IF get_token(session_id, Raises, clock, sessions).requests = 0
            THEN {Raises} ELSE TokenOutcomes(2) :
        LET r == get_token(session_id, refresh, clock, sessions)
        IN /\ sessions' = r.sessions
           /\ api_call' = Some([handler |-> "get_token",
                                session_id |-> session_id,
                                refresh |-> IF r.requests >= 1
                                            THEN Some(refresh) ELSE None])
           /\ api_response' = Some([status_code |-> r.status_code,
                                    detail |-> r.detail, body |-> r.body,
                                    set_cookie |-> r.set_cookie])
           /\ UNCHANGED clock
           /\ UNCHANGED <<verifierVars, composerVars, supervisorVars,
                          extractorVars, scoreVars>>

\* time passes between requests: a token's default lifetime at a time
Tick ==
    /\ clock < MaxTicks * TOKEN_EXPIRY_SECONDS
    /\ clock' = clock + TOKEN_EXPIRY_SECONDS
    /\ UNCHANGED <<sessions, api_call, api_response>>
    /\ UNCHANGED <<verifierVars, composerVars, supervisorVars, extractorVars,
                   scoreVars>>

NextApi == Callback \/ GetToken \/ Tick

SpecApi == InitApi /\ [][NextApi]_vars

----------------------------------------------------------------------------
(* _calculate_distraction_score called on its own, with features on a grid *)
(* that reaches beyond [0, 1] on both sides (TrackMetadata does not bound  *)
(* them).                                                                  *)

\* the grid has this many steps of 0.5, starting at -0.5
MaxGrid == 4

FeatureValues == {None} \cup {Some(50 * k - 50) : k \in 0..MaxGrid}

ScoreTrack(speechiness, instrumentalness, energy, explicit) ==
    [TrackMetadata([i \in 1..17 |-> 0]) EXCEPT
        !.speechiness = speechiness, !.instrumentalness = instrumentalness,
        !.energy = energy, !.explicit = explicit]

InitScore ==
    /\ \E s \in FeatureValues, i \in FeatureValues, e \in FeatureValues,
          x \in BOOLEAN : score_track = Some(ScoreTrack(s, i, e, x))
    /\ score_pc = "call"
    /\ score_result = None
    /\ VerifierIdle
    /\ ComposerIdle
    /\ SupervisorIdle
    /\ ExtractorIdle
    /\ ApiIdle

\* researcher.py lines 227-255
CalculateDistractionScore ==
    /\ score_pc = "call"
    /\ score_pc' = "returned"
    /\ score_result' = Some(_calculate_distraction_score(Val(score_track)))
    /\ UNCHANGED score_track
    /\ UNCHANGED <<verifierVars, composerVars, supervisorVars, extractorVars,
                   apiVars>>

NextScore == CalculateDistractionScore

SpecScore == InitScore /\ [][NextScore]_vars

----------------------------------------------------------------------------
(* Vocabulary of the properties.  They speak about a returned decision,    *)
(* the candidate as passed in (track0) and as left behind (track).         *)

Returned == pc = "done"

Result == Val(decision)

\* the check a reason string reports, by its leading words, in the order
\* vocals 1, live 2, remaster 3, featured artists 4, tempo 5, energy 6,
\* distraction score 7; 0 for a reason that reports no failed check
CheckOf(reason) ==
    CASE reason[1] = "Contains" /\ reason[2] = "vocals" -> 1
      [] reason[1] = "Live" -> 2
      [] reason[1] = "Remastered" -> 3
      [] reason[1] = "Featured" -> 4
      [] reason[1] = "Could" -> 5
      [] reason[1] = "BPM" /\ reason[3] \in {"below", "above"} -> 5
      [] reason[1] = "Energy" -> 6
      [] reason[1] = "Distraction" -> 7
      [] OTHER -> 0

\* "word" in reason.lower(), for a word of the reason
Mentions(reason, words) == \E i \in DOMAIN reason : reason[i] \in words

SuccessReason == <<"All", "protocol", "constraints", "satisfied">>

\* the signals of the vocal check, read off the candidate
NotInstrumental ==
    \/ track0.is_instrumental = Some(FALSE)
    \/ /\ track0.is_instrumental = None
       /\ \/ /\ track0.instrumentalness # None
             /\ Val(track0.instrumentalness) <= INSTRUMENTALNESS_THRESHOLD
          \/ /\ track0.instrumentalness = None
             /\ track0.speechiness # None
             /\ Val(track0.speechiness) >= SPEECHINESS_THRESHOLD
          \/ /\ track0.instrumentalness = None
             /\ track0.speechiness = None

BelowMin(bpm) == constraints.tempo_min # None /\ bpm < Val(constraints.tempo_min)

AboveMax(bpm) == constraints.tempo_max # None /\ bpm > Val(constraints.tempo_max)

\* check i of the chain fails on this call; the tempo is the candidate's own
\* or the one research resolved (absent when research found none)
Fails(i) ==
    CASE i = 1 -> constraints.no_vocals /\ NotInstrumental
      [] i = 2 -> constraints.avoid_live /\ track0.is_live
      [] i = 3 -> constraints.avoid_remaster /\ track0.is_remaster
      [] i = 4 -> constraints.avoid_feat /\ track0.has_feat
      [] i = 5 -> /\ constraints.tempo_min # None \/ constraints.tempo_max # None
                  /\ \/ track.bpm = None
                     \/ BelowMin(Val(track.bpm))
                     \/ AboveMax(Val(track.bpm))
      [] i = 6 -> /\ track0.energy # None
                  /\ \/ /\ constraints.energy_min # None
                        /\ Val(track0.energy) < Val(constraints.energy_min)
                     \/ /\ constraints.energy_max # None
                        /\ Val(track0.energy) > Val(constraints.energy_max)
      [] i = 7 -> /\ constraints.mode = "focus"
                  /\ _calculate_distraction_score(track0)
                        > 100 * DISTRACTION_SCORE_REJECTION_THRESHOLD

FailingChecks == {i \in 1..7 : Fails(i)}

NoHardBan == \A i \in 1..4 : ~Fails(i)

RejectedFor(i) ==
    /\ ~Result.approved
    /\ Len(Result.reasons) = 1
    /\ CheckOf(Result.reasons[1]) = i

----------------------------------------------------------------------------
(* Properties *)

\* C1: a rejected decision carries exactly one reason, the reason of the
\* first check in the order vocals, live, remaster, featured artists, tempo,
\* energy, distraction score that fails; a decision is a rejection exactly
\* when some check fails.
C1_FirstFailingCheckDecides ==
    Returned =>
        /\ Result.approved <=> FailingChecks = {}
        /\ ~Result.approved =>
              /\ FailingChecks # {}
              /\ RejectedFor(CHOOSE i \in FailingChecks :
                                \A j \in FailingChecks : i <= j)

\* C1 witness: a live candidate whose own BPM is out of range, rejected
\* with the live reason.
C1_Witness ==
    /\ Returned
    /\ track0.bpm # None
    /\ Fails(2) /\ Fails(5) /\ ~Fails(1)
    /\ RejectedFor(2)

\* C2, as stated: a live candidate under avoid_live is rejected and the
\* reasons mention "live", whatever the other fields hold.
C2_LiveReasonRegardless ==
    Returned /\ track0.is_live /\ constraints.avoid_live =>
        /\ ~Result.approved
        /\ \E k \in DOMAIN Result.reasons :
              Mentions(Result.reasons[k], {"live", "Live"})

\* C2, amended: a live candidate under avoid_live is always rejected; the
\* reasons mention "live" unless the vocal ban fires first, and then the
\* single reason is the vocals reason.
C2_LiveRejected ==
    Returned /\ track0.is_live /\ constraints.avoid_live =>
        /\ ~Result.approved
        /\ IF constraints.no_vocals /\ NotInstrumental
           THEN /\ RejectedFor(1)
                /\ ~Mentions(Result.reasons[1], {"live", "Live"})
           ELSE \E k \in DOMAIN Result.reasons :
                   Mentions(Result.reasons[k], {"live", "Live"})

\* C2 witness: a live candidate that passes a vocal ban that is switched
\* on, rejected with the live reason.
C2_Witness ==
    /\ Returned
    /\ track0.is_live /\ constraints.avoid_live
    /\ constraints.no_vocals /\ ~NotInstrumental
    /\ RejectedFor(2)

\* C3: every decision carries a distraction score exactly when the mode is
\* focus.
C3_ScoreIffFocus ==
    Returned => (Result.distraction_score # None <=> constraints.mode = "focus")

\* C4: with a tempo bound set, no hard ban firing and the candidate's tempo
\* absent, a search that raises or whose text yields no valid tempo ends in
\* a returned rejection with confidence 0.0 whose single reason says that
\* the BPM could not be determined.
C4_FailedResearchRejects ==
    /\ search_outcome # None => Returned
    /\ /\ Returned
       /\ constraints.tempo_min # None \/ constraints.tempo_max # None
       /\ NoHardBan
       /\ track0.bpm = None
       => /\ search_outcome # None
          /\ \/ Val(search_outcome).raised
             \/ _extract_bpm_from_text(Val(search_outcome).text) = None
             => /\ ~Result.approved
                /\ Result.confidence = 0
                /\ Result.reasons = << <<"Could", "not", "determine", "BPM", "-",
                                        "insufficient", "confidence">> >>

\* C4 witness: the search raised and the call returned.
C4_WitnessRaised ==
    /\ Returned
    /\ search_outcome # None
    /\ Val(search_outcome).raised
    /\ Result.confidence = 0

\* C5: when the candidate's tempo is absent and research yields a tempo T,
\* the candidate afterwards carries T and the provenance
\* "external_fallback", and the range comparison is made on T.
C5_ResolvedTempoWrittenBack ==
    /\ Returned
    /\ track0.bpm = None
    /\ search_outcome # None
    /\ ~Val(search_outcome).raised
    /\ _extract_bpm_from_text(Val(search_outcome).text) # None
    => LET T == Val(_extract_bpm_from_text(Val(search_outcome).text))
       IN /\ track.bpm = Some(T)
          /\ track.source = "external_fallback"
          /\ (BelowMin(T) \/ AboveMax(T)) <=> RejectedFor(5)
          /\ RejectedFor(5) => Result.reasons[1][2] = ToString(T)
          /\ Result.approved => Result.reasons[1] = <<"BPM", ToString(T), "within", "range">>

\* C5 witness: research resolved a tempo that then fails the range.
C5_WitnessOutOfRange ==
    /\ Returned
    /\ track0.bpm = None
    /\ track.bpm # None
    /\ track0.source = "spotify_features"
    /\ RejectedFor(5)

BpmReason(word) ==
    /\ RejectedFor(5)
    /\ Result.confidence = 100
    /\ Result.reasons[1][1] = "BPM"
    /\ Result.reasons[1][3] = word

C8_EnergyOnlyWhenPresent ==
    Returned =>
        /\ RejectedFor(6) =>
              /\ track0.energy # None
              /\ \/ /\ constraints.energy_min # None
                    /\ Val(track0.energy) < Val(constraints.energy_min)
                 \/ /\ constraints.energy_max # None
                    /\ Val(track0.energy) > Val(constraints.energy_max)
        /\ track0.energy = None => ~RejectedFor(6)
        /\ /\ track0.energy = None
           /\ \/ track0.bpm # None
              \/ constraints.tempo_min = None /\ constraints.tempo_max = None
           => searches = 0

\* C8 witness: energy bounds on both sides, no energy on the candidate, and
\* the candidate is approved without a search.
C8_WitnessAbsentEnergy ==
    /\ Returned
    /\ track0.energy = None
    /\ constraints.energy_min # None
    /\ constraints.energy_max # None
    /\ searches = 0
    /\ Result.approved

\* C9, as stated: an accepted decision has confidence 1.0 and a reasons
\* list holding the success message alone.
C9_SingleSuccessReason ==
    Returned /\ Result.approved =>
        /\ Result.confidence = 100
        /\ Result.reasons = <<SuccessReason>>

\* C9, amended: an accepted decision has confidence 1.0 and a reasons list
\* that ends with the success message, preceded by the "BPM within range"
\* note exactly when a tempo bound is set.
C9_SuccessReasonLast ==
    Returned /\ Result.approved =>
        /\ Result.confidence = 100
        /\ IF constraints.tempo_min # None \/ constraints.tempo_max # None
           THEN Result.reasons =
                   << <<"BPM", ToString(Val(track.bpm)), "within", "range">>,
                      SuccessReason >>
           ELSE Result.reasons = <<SuccessReason>>

\* C9 witness: an accepted decision under a tempo bound.
C9_WitnessTempoBound ==
    /\ Returned
    /\ Result.approved
    /\ constraints.tempo_max # None
    /\ Len(Result.reasons) = 2

\* C10: in focus mode, when the six earlier checks pass, the candidate is
\* rejected with confidence 0.9 and a reason reporting the score iff the
\* score exceeds the threshold, and accepted otherwise; in the other modes
\* no decision is a distraction rejection.
C10_DistractionThreshold ==
    Returned =>
        /\ constraints.mode = "focus" /\ (\A i \in 1..6 : ~Fails(i)) =>
              LET score == _calculate_distraction_score(track0)
              IN IF score > 100 * DISTRACTION_SCORE_REJECTION_THRESHOLD
                 THEN /\ RejectedFor(7)
                      /\ Result.confidence = 90
                      /\ Result.reasons[1][3] = ToString((score + 50) \div 100)
                 ELSE Result.approved
        /\ constraints.mode # "focus" => ~RejectedFor(7)

\* C10 witness: a focus candidate that passes a tempo check and is rejected
\* for its distraction score.
C10_WitnessRejected ==
    /\ Returned
    /\ constraints.mode = "focus"
    /\ constraints.tempo_min # None
    /\ RejectedFor(7)

----------------------------------------------------------------------------
(* Vocabulary of the composer's properties. *)

ComposerReturned == composer_pc = "returned"

ComposerRaised == composer_pc = "raised"

CallMode == Val(composer_call).mode

Hint == Val(composer_call).genre

Composed == Val(composed)

\* the bans a record of constraints switches on
Bans(c) ==
    {b \in {"no_vocals", "avoid_live", "avoid_remaster", "avoid_feat"} : c[b]}

\* the default genres the per-mode table gives a mode
TableGenres(mode) ==
    CASE mode = "focus" -> <<Techno, Baroque, PostRock>>
      [] mode = "relax" -> <<Acoustic, Ambient, Jazz>>
      [] OTHER -> <<Ambient, Drone, NatureSounds>>

Elements(list) == {list[i] : i \in DOMAIN list}

\* a text without its leading and trailing blanks, as str.strip() gives it
RECURSIVE Strip(_)
Strip(text) ==
    IF text = <<>> THEN text
    ELSE IF IsSpace(Head(text)) THEN Strip(Tail(text))
    ELSE IF IsSpace(text[Len(text)]) THEN Strip(SubSeq(text, 1, Len(text) - 1))
    ELSE text

----------------------------------------------------------------------------
(* C11.  Called with one of the four modes and no genre hint,              *)
(* compose_constraints returns the values of the per-mode table:           *)
(* focus has tempo 120..140, energy_max 0.7, all four bans, the genres     *)
(* Techno, Baroque, Post-Rock and no key preference; relax has tempo       *)
(* 60..90, energy_max 0.6, no ban, the genres Acoustic, Ambient, Jazz and  *)
(* the key Major; sleep has tempo_max 60 and no tempo_min, energy_max 0.3, *)
(* the live ban only and the genres Ambient, Drone, Nature Sounds;         *)
(* meditation has tempo_max 70 and no tempo_min, energy_max 0.4, the       *)
(* vocals and live bans only and the genres Ambient, Drone, Nature Sounds. *)

C11_PerModeTable ==
    (ComposerReturned /\ Hint = None) =>
        LET c == Composed
        IN CASE CallMode = "focus" ->
                  /\ c.tempo_min = {120} /\ c.tempo_max = {140}
                  /\ c.energy_max = {70}
                  /\ Bans(c) = {"no_vocals", "avoid_live", "avoid_remaster",
                                "avoid_feat"}
                  /\ c.genres = <<Techno, Baroque, PostRock>>
                  /\ c.key_preference = {}
             [] CallMode = "relax" ->
                  /\ c.tempo_min = {60} /\ c.tempo_max = {90}
                  /\ c.energy_max = {60}
                  /\ Bans(c) = {}
                  /\ c.genres = <<Acoustic, Ambient, Jazz>>
                  /\ c.key_preference = {"Major"}
             [] CallMode = "sleep" ->
                  /\ c.tempo_min = {} /\ c.tempo_max = {60}
                  /\ c.energy_max = {30}
                  /\ Bans(c) = {"avoid_live"}
                  /\ c.genres = <<Ambient, Drone, NatureSounds>>
             [] CallMode = "meditation" ->
                  /\ c.tempo_min = {} /\ c.tempo_max = {70}
                  /\ c.energy_max = {40}
                  /\ Bans(c) = {"no_vocals", "avoid_live"}
                  /\ c.genres = <<Ambient, Drone, NatureSounds>>

\* compose_constraints has returned for the sleep mode without a hint
C11_WitnessSleep ==
    /\ ComposerReturned
    /\ Hint = None
    /\ CallMode = "sleep"
    /\ Composed.tempo_min = {}

----------------------------------------------------------------------------
(* C12 as stated.  For every mode and every supplied genre hint the        *)
(* composed genre list has exactly one element, the hint, and none of the  *)
(* mode's default genres.                                                  *)

C12_HintAndNoDefault ==
    (ComposerReturned /\ Hint # None) =>
        /\ Composed.genres = <<Val(Hint)>>
        /\ \A d \in Elements(TableGenres(CallMode)) :
              d \notin Elements(Composed.genres)

(* C12.  For every mode and every supplied genre hint the composed genre   *)
(* list has exactly one element, the hint as it was passed; it holds a     *)
(* default genre of the mode only when the hint itself is that genre.      *)

C12_HintReplacesDefaults ==
    (ComposerReturned /\ Hint # None) =>
        /\ Composed.genres = <<Val(Hint)>>
        /\ \A d \in Elements(TableGenres(CallMode)) :
              d \in Elements(Composed.genres) => d = Val(Hint)

\* the focus mode composed under the hint Techno, one of its own defaults
C12_WitnessHintIsDefault ==
    /\ ComposerReturned
    /\ CallMode = "focus"
    /\ Hint = Some(Techno)
    /\ Composed.genres = <<Techno>>

----------------------------------------------------------------------------
(* C13 as stated.  For every mode, a genre hint that is not empty and not  *)
(* only whitespace yields the one-element genre list holding the hint      *)
(* without its leading and trailing whitespace; a hint that is empty or    *)
(* only whitespace is dropped and is no element of the genre list.         *)

C13_HintTrimmed ==
    (ComposerReturned /\ Hint # None) =>
        IF Strip(Val(Hint)) # <<>>
        THEN Composed.genres = <<Strip(Val(Hint))>>
        ELSE Val(Hint) \notin Elements(Composed.genres)

----------------------------------------------------------------------------
(* C14.  compose_constraints returns for each of the four Mode values,     *)
(* with constraints whose mode is the requested one; for a value outside   *)
(* the enumeration it raises the unknown-mode error and returns no         *)
(* constraints.                                                            *)

C14_FailsOnlyOnUnknownMode ==
    composer_pc # "call" =>
        IF CallMode \in Mode
        THEN /\ ComposerReturned
             /\ composer_error = None
             /\ Composed.mode = CallMode
        ELSE /\ ComposerRaised
             /\ composed = None
             /\ composer_error = Some(<<"Unknown", "mode:", CallMode>>)

\* the call with a value outside the enumeration has raised
C14_WitnessUnknownMode ==
    /\ ComposerRaised
    /\ CallMode \notin Mode
    /\ composed = None

----------------------------------------------------------------------------
(* Vocabulary of the orchestrator's properties. *)

\* the run walks the graph (it is not the call of a single node function)
WalksGraph == entry \in {"generate_playlist", "graph"}

NodeNames == {Stages[i] : i \in DOMAIN Stages}

\* the walk of the graph is over
WalkEnded == stage \in {"END", "returned", "raised"}

\* generate_playlist has returned or raised
PlaylistEnded == stage \in {"returned", "raised"}

PlaylistOutcome == Val(playlist_outcome)

NotComposed == Some("Constraints not composed")

\* the node at hand runs in this step
Runs(node) == stage = node /\ stage' # stage

----------------------------------------------------------------------------
(* C15.  Every walk of the graph, as generate_playlist starts it, runs     *)
(* compose_constraints, generate_candidates, verify_tracks,                *)
(* filter_approved and build_result once each, in this order and without   *)
(* branching or retry; an error slot that is set does not stop the walk:   *)
(* the later nodes still run before the walk ends.                         *)

C15_LinearWalk ==
    WalksGraph =>
        /\ Len(walk) <= Len(Stages)
        /\ walk = SubSeq(Stages, 1, Len(walk))
        /\ stage \in NodeNames => stage = Stages[Len(walk) + 1]
        /\ WalkEnded => walk = Stages

\* a walk has ended after all five nodes with the error slot set
C15_WitnessErrorDoesNotStop ==
    /\ entry = "graph"
    /\ stage = "END"
    /\ walk = Stages
    /\ Truthy(state0.error)
    /\ Truthy(state.error)

----------------------------------------------------------------------------
(* C16.  generate_playlist returns a PlaylistResult if and only if the     *)
(* final state has an empty error slot and a result, and then returns that *)
(* result; with a non-empty error slot it raises the wrapping supervisor   *)
(* error, also when a result was built; with an empty error slot and no    *)
(* result it raises the no-result error.  No node clears an error slot     *)
(* that is set, so an error set during the walk ends in the raised error.  *)

C16_ReturnsIffNoErrorAndResult ==
    /\ [](PlaylistEnded =>
            /\ PlaylistOutcome.returned # None
                  <=> (~Truthy(state.error) /\ state.result # None)
            /\ PlaylistOutcome.returned # None
                  => PlaylistOutcome.returned = state.result
            /\ Truthy(state.error)
                  => PlaylistOutcome.raised
                       = Some(<<"Supervisor error:", Val(state.error)>>)
            /\ (~Truthy(state.error) /\ state.result = None)
                  => PlaylistOutcome.raised
                       = Some(<<"Supervisor did not produce a result">>)
            /\ stage = "returned" <=> PlaylistOutcome.returned # None)
    /\ [][(stage \in NodeNames /\ Truthy(state.error))
             => Truthy(state'.error)]_vars

\* generate_playlist raised on an error slot although a result was built
C16_WitnessErrorWithResult ==
    /\ entry = "patched"
    /\ stage = "raised"
    /\ Truthy(state.error)
    /\ state.result # None

----------------------------------------------------------------------------
(* C17.  With an empty constraints slot, generate_candidates and           *)
(* verify_tracks each set the error slot to "Constraints not composed" and *)
(* return: they do not raise, hand no candidate to the verifier and leave  *)
(* the candidate list and the decision list as they are.                   *)

C17_DefensiveWithoutConstraints ==
    [][((Runs("generate_candidates") \/ Runs("verify_tracks"))
          /\ state.constraints = None)
         => /\ state'.error = NotComposed
            /\ state'.candidate_tracks = state.candidate_tracks
            /\ state'.verified_tracks = state.verified_tracks
            /\ verifier_calls' = verifier_calls
            /\ stage' \in {"node returned", NextStage(stage, state')}]_vars

\* _verify_tracks has returned for a state with candidates and no constraints
C17_WitnessVerifyWithoutConstraints ==
    /\ entry = "node"
    /\ stage = "node returned"
    /\ walk = <<"verify_tracks">>
    /\ state0.constraints = None
    /\ state0.candidate_tracks # <<>>
    /\ state.error = NotComposed
    /\ verifier_calls = <<>>

----------------------------------------------------------------------------
(* C18.  When verify_tracks runs with constraints present, the decision    *)
(* list it leaves has one decision per candidate of its input list, the    *)
(* i-th being the decision verify_track makes for the i-th candidate, and  *)
(* the candidates were handed to the verifier in the order of the list.    *)

C18_DecisionsMirrorCandidates ==
    [][(Runs("verify_tracks") /\ state.constraints # None)
         => /\ Len(state'.verified_tracks) = Len(state.candidate_tracks)
            /\ \A i \in DOMAIN state.candidate_tracks :
                  \E answer \in SearchAnswers :
                     state'.verified_tracks[i]
                       = verify_track(state.candidate_tracks[i],
                                      Val(state.constraints), answer)
            /\ verifier_calls' = verifier_calls \o state.candidate_tracks]_vars

\* _verify_tracks has returned for two candidates, one approved and one not
C18_WitnessTwoCandidates ==
    /\ entry = "node"
    /\ walk = <<"verify_tracks">>
    /\ state0.constraints # None
    /\ Len(state0.candidate_tracks) = 2
    /\ Len(state.verified_tracks) = 2
    /\ state.verified_tracks[1].approved
    /\ ~state.verified_tracks[2].approved

----------------------------------------------------------------------------
(* C19 as stated.  Every call of verify_track eventually returns a         *)
(* decision, also when the search tool invoked by the tempo fallback never *)
(* responds: the search is bounded, and its silence ends in the            *)
(* BPM-undetermined rejection.                                             *)

C19_AlwaysReturns == <>Returned

----------------------------------------------------------------------------
(* Vocabulary of the extractor's properties. *)

ExtractorReturned == extractor_pc = "returned"

Extracted == extractor_result[1]

\* the numbers written in a text: its maximal runs of digits, as pairs of
\* the first and the last position
NumbersIn(text) ==
    { r \in (1..Len(text)) \X (1..Len(text)) :
        /\ r[1] <= r[2]
        /\ \A k \in r[1]..r[2] : text[k] \in Digits
        /\ r[1] > 1 => text[r[1] - 1] \notin Digits
        /\ r[2] < Len(text) => text[r[2] + 1] \notin Digits }

\* the number r stands next to "bpm" or "tempo" (in any case): right before
\* the word or right after it, with nothing but blanks and colons between
NextToWord(text, r) ==
    \E word \in {<<"b","p","m">>, <<"t","e","m","p","o">>} :
        \/ \E k \in (r[2] + 1)..Len(text) :
              /\ LiteralAt(text, k, word)
              /\ \A g \in (r[2] + 1)..(k - 1) : text[g] \in {" ", ":"}
        \/ \E k \in 1..(r[1] - 1) :
              /\ LiteralAt(text, k, word)
              /\ k + Len(word) <= r[1]
              /\ \A g \in (k + Len(word))..(r[1] - 1) : text[g] \in {" ", ":"}

\* the values of the numbers next to "bpm" or "tempo"
AdjacentNumbers(text) ==
    { Number(text, r[1], r[2] - r[1] + 1) :
        r \in {q \in NumbersIn(text) : NextToWord(text, q)} }

InSanityRange(n) == MIN_VALID_BPM <= n /\ n <= MAX_VALID_BPM

----------------------------------------------------------------------------
(* C20 as stated.  For every text the BPM extractor returns, without       *)
(* raising, either none or a number within [MIN_VALID_BPM, MAX_VALID_BPM]; *)
(* a text with no number next to "bpm" or "tempo", and a text whose only   *)
(* such numbers are outside that range, yield none.                        *)

C20_ExtractorSane ==
    ExtractorReturned =>
        /\ Extracted # None => InSanityRange(Val(Extracted))
        /\ AdjacentNumbers(extractor_text) = {} => Extracted = None
        /\ (\A n \in AdjacentNumbers(extractor_text) : ~InSanityRange(n))
              => Extracted = None

----------------------------------------------------------------------------
(* The four patterns seen as a whole: every match a pattern has in a text, *)
(* as re.findall lists them (left to right, never overlapping).            *)

Patterns == 1..4

\* the lengths of the digit group with which pattern p matches at position i
GroupLengths(text, p, i) ==
    CASE p = 1 -> DigitsThenBpm(text, i, TRUE)
      [] p = 2 -> WordThenDigits(text, i, <<"b","p","m">>)
      [] p = 3 -> WordThenDigits(text, i, <<"t","e","m","p","o">>)
      [] p = 4 -> DigitsThenBpm(text, i, FALSE)

\* where the digit group of the match of pattern p at position i begins
GroupStart(text, p, i) ==
    IF p \in {1, 4} THEN i
    ELSE LET w == IF p = 2 THEN 3 ELSE 5
         IN i + w + RunLength(text, i + w, FALSE)

\* the first position after the match of pattern p at position i
MatchEnd(text, p, i) ==
    LET n == Max(GroupLengths(text, p, i))
        d == GroupStart(text, p, i)
    IN IF p \in {1, 4} THEN d + n + RunLength(text, d + n, TRUE) + 3
       ELSE d + n

\* the numbers of all matches of pattern p from position from on
RECURSIVE AllMatches(_, _, _)
AllMatches(text, p, from) ==
    LET starts == {i \in from..Len(text) : GroupLengths(text, p, i) # {}}
    IN IF starts = {} THEN <<>>
       ELSE LET i == CHOOSE s \in starts : \A o \in starts : s <= o
            IN <<Number(text, GroupStart(text, p, i),
                        Max(GroupLengths(text, p, i)))>>
               \o AllMatches(text, p, MatchEnd(text, p, i))

\* the matches of pattern p whose number is within the sanity range
InRangeMatches(text, p) ==
    SelectSeq(AllMatches(text, p, 1), InSanityRange)

\* the patterns with some match within the sanity range
PatternsInRange(text) == {p \in Patterns : InRangeMatches(text, p) # <<>>}

\* the patterns whose first match is within the sanity range
PatternsFirstInRange(text) ==
    {p \in Patterns : /\ AllMatches(text, p, 1) # <<>>
                      /\ InSanityRange(AllMatches(text, p, 1)[1])}

Least(S) == CHOOSE x \in S : \A y \in S : x <= y

----------------------------------------------------------------------------
(* C21 as stated.  The BPM extractor tries its four patterns in priority   *)
(* order and skips out-of-range matches: whenever the text contains some   *)
(* pattern match within the sanity range the result is not none, and it is *)
(* the earliest in-range match of the highest-priority pattern that has    *)
(* one.                                                                    *)

C21_AnyInRangeMatchFound ==
    ExtractorReturned =>
        LET found == PatternsInRange(extractor_text)
        IN /\ found # {} => Extracted # None
           /\ found # {} =>
                 Extracted = Some(InRangeMatches(extractor_text, Least(found))[1])

(* C21, corrected.  Of each pattern only the first match in the text is    *)
(* looked at: the result is the first match of the highest-priority        *)
(* pattern whose first match lies within the sanity range, and none when   *)
(* no pattern's first match does, whatever later matches the text holds.   *)

C21_FirstMatchOfEachPattern ==
    ExtractorReturned =>
        LET found == PatternsFirstInRange(extractor_text)
        IN Extracted = IF found = {} THEN None
                       ELSE Some(AllMatches(extractor_text, Least(found), 1)[1])

\* an out-of-range first match hides a later in-range match of the pattern
C21_WitnessLaterMatchIgnored ==
    /\ ExtractorReturned
    /\ PatternsInRange(extractor_text) # {}
    /\ PatternsFirstInRange(extractor_text) = {}
    /\ Extracted = None

----------------------------------------------------------------------------
(* Vocabulary of the API properties: the request served last and its       *)
(* answer.                                                                 *)

ApiCall == Val(api_call)

ApiResponse == Val(api_response)

CallbackServed == api_call # None /\ ApiCall.handler = "callback"

\* the token exchange was sent and answered 200
ExchangeAnswered ==
    /\ ApiCall.exchange # None
    /\ ~Val(ApiCall.exchange).raised
    /\ Val(ApiCall.exchange).status_code = 200

\* the user-info request was sent and answered 200
UserInfoAnswered ==
    /\ ApiCall.user_info # None
    /\ ~Val(ApiCall.user_info).raised
    /\ Val(ApiCall.user_info).status_code = 200

\* an upstream request raised, or the token answer holds no access token
UpstreamBroke ==
    \/ /\ ApiCall.exchange # None
       /\ \/ Val(ApiCall.exchange).raised
          \/ /\ ExchangeAnswered
             /\ Val(Val(ApiCall.exchange).json).access_token = None
    \/ ApiCall.user_info # None /\ Val(ApiCall.user_info).raised

----------------------------------------------------------------------------
(* C22 as stated.  Across any sequence of OAuth callbacks a session record *)
(* is added to the store only by a callback that carries no error          *)
(* parameter, carries both code and state, whose state equals the          *)
(* oauth_state cookie and whose token exchange and user-info fetch both    *)
(* succeeded; every callback failing any of these steps answers 400 and    *)
(* leaves the store unchanged.                                             *)

C22_SessionOnlyByValidCallback ==
    [][ CallbackServed' =>
          LET q == ApiCall'.request
              valid == /\ q.error = None
                       /\ q.code # None /\ q.state # None
                       /\ q.state = q.stored_state
                       /\ ExchangeAnswered' /\ UserInfoAnswered'
          IN /\ sessions' # sessions => valid
             /\ ~valid => /\ ApiResponse'.status_code = 400
                          /\ sessions' = sessions ]_vars

(* C22, corrected.  A callback changes the session store only when its     *)
(* error parameter is absent or empty, code and state are non-empty, the   *)
(* state equals the oauth_state cookie, the token exchange answered 200    *)
(* with an access token and the user-info fetch answered 200; it then adds *)
(* exactly one record under a new id, leaves the other records as they     *)
(* were and redirects with the session_id cookie.  Every other callback    *)
(* leaves the store unchanged and answers 400, or 500 when an upstream     *)
(* request raised or the token answer held no access token.                *)

C22_SessionOnlyByCheckedCallback ==
    [][ CallbackServed' =>
          LET q == ApiCall'.request
              checked == /\ ~Truthy(q.error)
                         /\ Truthy(q.code) /\ Truthy(q.state)
                         /\ q.state = q.stored_state
                         /\ ExchangeAnswered' /\ UserInfoAnswered'
                         /\ ~UpstreamBroke'
          IN /\ sessions' # sessions =>
                  /\ checked
                  /\ ApiResponse'.status_code = 307
                  /\ \E id \in SessionIds \ DOMAIN sessions :
                        /\ DOMAIN sessions' = DOMAIN sessions \cup {id}
                        /\ ApiResponse'.set_cookie = Some(id)
                        /\ \A old \in DOMAIN sessions :
                              sessions'[old] = sessions[old]
             /\ ~checked =>
                  /\ sessions' = sessions
                  /\ ApiResponse'.status_code =
                        IF UpstreamBroke' THEN 500 ELSE 400 ]_vars

\* a second session has been added, by a callback with an empty error
\* parameter
C22_WitnessSecondSessionAdded ==
    /\ CallbackServed
    /\ ApiCall.request.error = Some("")
    /\ ApiResponse.status_code = 307
    /\ ApiResponse.set_cookie = Some(2)
    /\ DOMAIN sessions = {1, 2}

----------------------------------------------------------------------------
TokenServed == api_call # None /\ ApiCall.handler = "get_token"

\* the refresh request was sent and answered 200 with an access token
RefreshSucceeded ==
    /\ ApiCall.refresh # None
    /\ ~Val(ApiCall.refresh).raised
    /\ Val(ApiCall.refresh).status_code = 200
    /\ Val(Val(ApiCall.refresh).json).access_token # None

\* the refresh request was sent and answered with another status than 200
RefreshRejected ==
    /\ ApiCall.refresh # None
    /\ ~Val(ApiCall.refresh).raised
    /\ Val(ApiCall.refresh).status_code # 200

(* C23.  get_token never returns an access token from an expired session   *)
(* unless a refresh succeeded in that request.  For an expired session     *)
(* with no refresh token, or whose refresh is rejected, it answers 401 and *)
(* leaves the session record unchanged; after a successful refresh it      *)
(* stores and returns the new access token with a renewed expiry and       *)
(* replaces the stored refresh token only if the response carries a new    *)
(* one; for an unknown or missing session id it answers 401.               *)

C23_ExpiredTokenNeverReturned ==
    [][ (TokenServed' /\ clock' = clock) =>
          LET id == ApiCall'.session_id
              answer == ApiResponse'
          IN IF id = None \/ Val(id) \notin DOMAIN sessions
             THEN answer.status_code = 401 /\ answer.body = None
                  /\ sessions' = sessions
             ELSE
               LET before == sessions[Val(id)]
                   after == sessions'[Val(id)]
                   expired == clock >= before.expires_at
                   new_tokens == Val(Val(ApiCall'.refresh).json)
               IN /\ DOMAIN sessions' = DOMAIN sessions
                  /\ \A other \in DOMAIN sessions \ {Val(id)} :
                        sessions'[other] = sessions[other]
                  /\ (expired /\ answer.body # None) => RefreshSucceeded'
                  /\ (expired /\ before.refresh_token = None) =>
                        /\ answer.status_code = 401
                        /\ ApiCall'.refresh = None
                        /\ after = before
                  /\ (expired /\ RefreshRejected') =>
                        answer.status_code = 401 /\ after = before
                  /\ (expired /\ RefreshSucceeded') =>
                        /\ answer.status_code = 200
                        /\ answer.body = new_tokens.access_token
                        /\ after.access_token = Val(new_tokens.access_token)
                        /\ after.expires_at =
                              clock + (IF new_tokens.expires_in = None
                                       THEN TOKEN_EXPIRY_SECONDS
                                       ELSE Val(new_tokens.expires_in))
                        /\ after.expires_at > clock
                        /\ after.refresh_token =
                              IF new_tokens.refresh_token # None
                              THEN new_tokens.refresh_token
                              ELSE before.refresh_token
                        /\ after.user_id = before.user_id
                        /\ after.is_premium = before.is_premium ]_vars

\* an expired session was refreshed by an answer carrying no refresh token:
\* the new access token is stored and returned, the refresh token kept
C23_WitnessRefreshKeepsRefreshToken ==
    /\ TokenServed
    /\ RefreshSucceeded
    /\ Val(Val(ApiCall.refresh).json).refresh_token = None
    /\ ApiResponse.status_code = 200
    /\ ApiResponse.body = Some(<<"access", 2>>)
    /\ sessions[Val(ApiCall.session_id)].access_token = <<"access", 2>>
    /\ sessions[Val(ApiCall.session_id)].refresh_token = Some(<<"refresh", 1>>)

----------------------------------------------------------------------------
\* the decision is the BPM-undetermined rejection of lines 96-102
BpmUndeterminedRejection ==
    /\ ~Result.approved
    /\ Result.reasons =
          << <<"Could", "not", "determine", "BPM", "-", "insufficient", "confidence">> >>

\* the tempo had to be researched and research found none
TempoNotFound ==
    /\ NoHardBan
    /\ constraints.tempo_min # None \/ constraints.tempo_max # None
    /\ track0.bpm = None
    /\ track.bpm = None

(* C24.  Every rejection caused by a hard ban (vocals, live, remaster,     *)
(* featured artists) has confidence 1.0 and exactly one reason, and        *)
(* confidence 0.0 occurs in a decision if and only if that decision is the *)
(* BPM-undetermined rejection.                                             *)

C24_ConfidenceOfRejections ==
    Returned =>
        /\ ~NoHardBan =>
              /\ ~Result.approved
              /\ Result.confidence = 100
              /\ Len(Result.reasons) = 1
              /\ CheckOf(Result.reasons[1]) \in 1..4
        /\ (\E i \in 1..4 : RejectedFor(i)) =>
              ~NoHardBan /\ Result.confidence = 100
        /\ Result.confidence = 0 <=> BpmUndeterminedRejection
        /\ BpmUndeterminedRejection <=> TempoNotFound

\* a candidate passing the four bans, with a tempo bound set and no tempo,
\* whose research fails: rejected with confidence 0
C24_WitnessUndetermined ==
    /\ Returned
    /\ TempoNotFound
    /\ searches = 1
    /\ Result.confidence = 0
    /\ BpmUndeterminedRejection

----------------------------------------------------------------------------
\* a feature is absent or within [0, 1]
InUnitInterval(feature) ==
    feature = None \/ (0 <= Val(feature) /\ Val(feature) <= 100)

ScoreReturned == score_pc = "returned"

(* C25.  For every candidate whose speechiness, instrumentalness and       *)
(* energy are each absent or within [0, 1], the distraction score lies     *)
(* within [0, 1], and the score of the candidate with explicit set is not  *)
(* lower than its score with explicit unset.                               *)

C25_ScoreWithinUnitInterval ==
    ScoreReturned =>
        LET t == Val(score_track)
            score == Val(score_result)
        IN (/\ InUnitInterval(t.speechiness)
            /\ InUnitInterval(t.instrumentalness)
            /\ InUnitInterval(t.energy)) =>
               /\ 0 <= score /\ score <= 10000
               /\ IF t.explicit
                  THEN score >= _calculate_distraction_score(
                                    [t EXCEPT !.explicit = FALSE])
                  ELSE score <= _calculate_distraction_score(
                                    [t EXCEPT !.explicit = TRUE])

\* an explicit candidate with speechiness 1, instrumentalness 0 and energy 1
\* scores 1.0, above its score of 0.9 without the explicit flag
C25_WitnessHighestScore ==
    /\ ScoreReturned
    /\ Val(score_track).explicit
    /\ Val(score_track).speechiness = Some(100)
    /\ Val(score_track).instrumentalness = Some(0)
    /\ Val(score_track).energy = Some(100)
    /\ score_result = Some(10000)
    /\ _calculate_distraction_score([Val(score_track) EXCEPT !.explicit = FALSE])
          = 9000

----------------------------------------------------------------------------
\* the tracks of the approving decisions of a decision list, in its order
RECURSIVE TracksOfApproved(_)
TracksOfApproved(decisions) ==
    IF decisions = <<>> THEN <<>>
    ELSE (IF Head(decisions).approved THEN <<Head(decisions).track>> ELSE <<>>)
         \o TracksOfApproved(Tail(decisions))

\* no track of the list is the track of a rejecting decision of the run
NoRejectedTrackIn(tracks) ==
    \A k \in DOMAIN state.verified_tracks :
        ~state.verified_tracks[k].approved =>
            \A j \in DOMAIN tracks : tracks[j] # state.verified_tracks[k].track

\* position of a node in the walk (0 when it has not run)
RanAt(node) ==
    IF \E i \in DOMAIN walk : walk[i] = node
    THEN CHOOSE i \in DOMAIN walk : walk[i] = node
    ELSE 0

(* C26.  After filter_approved the approved list is exactly the sequence   *)
(* of the tracks of the decisions whose approved flag is true, in the      *)
(* order of the decision list; build_result takes the result's tracks from *)
(* that list, so no track whose decision is a rejection appears in the     *)
(* tracks of a returned PlaylistResult.                                    *)

C26_OnlyApprovedTracks ==
    /\ [][ Runs("filter_approved") =>
             /\ state'.approved_tracks = TracksOfApproved(state.verified_tracks)
             /\ state'.verified_tracks = state.verified_tracks ]_vars
    /\ [][ Runs("build_result") =>
             /\ Val(state'.result).tracks = state.approved_tracks
             /\ state'.verified_tracks = state.verified_tracks ]_vars
    /\ []( (RanAt("filter_approved") # 0
              /\ RanAt("build_result") > RanAt("filter_approved")) =>
             /\ Val(state.result).tracks = TracksOfApproved(state.verified_tracks)
             /\ NoRejectedTrackIn(Val(state.result).tracks) )
    /\ []( stage = "returned" =>
             NoRejectedTrackIn(Val(PlaylistOutcome.returned).tracks) )

\* filter_approved has run on two decisions, one approving and one
\* rejecting, and has kept the approved track alone
C26_WitnessOneOfTwoKept ==
    /\ walk = <<"filter_approved">>
    /\ Len(state.verified_tracks) = 2
    /\ state.verified_tracks[1].approved
    /\ ~state.verified_tracks[2].approved
    /\ state.approved_tracks = <<state.verified_tracks[1].track>>

----------------------------------------------------------------------------
\* the fields of a record of constraints other than the genre list
OtherFields ==
    {"mode", "tempo_min", "tempo_max", "energy_min", "energy_max", "no_vocals",
     "avoid_live", "avoid_remaster", "avoid_feat", "key_preference"}

(* C27.  A genre hint changes only the preferred-genre list: for every     *)
(* mode and every hint, the tempo bounds, the energy bounds, the four ban  *)
(* switches, the key preference and the mode equal those composed for the  *)
(* mode without a hint.                                                    *)

C27_HintChangesGenresOnly ==
    (ComposerReturned /\ Hint # None) =>
        /\ DOMAIN Composed = OtherFields \cup {"genres"}
        /\ \A field \in OtherFields :
              Composed[field] = compose_constraints(CallMode, None)[field]

\* the sleep mode composed under the hint Jazz: another genre list than
\* without the hint, the sleep mode's tempo ceiling and its one ban
C27_WitnessSleepWithHint ==
    /\ ComposerReturned
    /\ CallMode = "sleep"
    /\ Hint = Some(Jazz)
    /\ Composed.genres # compose_constraints("sleep", None).genres
    /\ Composed.tempo_max = Some(SLEEP_MODE_TEMPO_MAX)
    /\ Bans(Composed) = {"avoid_live"}

----------------------------------------------------------------------------
\* some tempo bound is set
TempoBounded == constraints.tempo_min # None \/ constraints.tempo_max # None

(* C28.  Within one verify_track call the search tool is invoked at most   *)
(* once, and only when the vocal, live, remaster and featured-artist       *)
(* checks have all passed, some tempo bound is set and the candidate has   *)
(* no tempo; a candidate rejected by a hard ban, a candidate that has a    *)
(* tempo and constraints without a tempo bound never cause a search.       *)

----------------------------------------------------------------------------
\* the search tool answered and the answer holds a tempo
ResearchFoundTempo ==
    /\ search_outcome # None
    /\ ~Val(search_outcome).raised
    /\ _extract_bpm_from_text(Val(search_outcome).text) # None

\* the fields of the candidate other than tempo and provenance
FieldsKept ==
    \A field \in DOMAIN track0 \ {"bpm", "source"} : track[field] = track0[field]

(* C29.  verify_track changes the candidate only by writing tempo and      *)
(* provenance when fallback research found a tempo; on every other path    *)
(* (tempo present, rejection by a hard ban, no tempo bound, research       *)
(* failed or raised) every field of the candidate, tempo and provenance    *)
(* included, is after the call what it was before.                         *)

C29_CandidateChangedOnlyByResearch ==
    /\ DOMAIN track = DOMAIN track0
    /\ FieldsKept
    /\ ~Returned => track = track0
    /\ Returned =>
          IF ResearchFoundTempo
          THEN /\ track0.bpm = None
               /\ track.bpm = _extract_bpm_from_text(Val(search_outcome).text)
               /\ track.source = "external_fallback"
          ELSE track = track0
    /\ (Returned /\ (track0.bpm # None \/ ~NoHardBan \/ ~TempoBounded
                       \/ BpmUndeterminedRejection)) => track = track0

\* the candidate was approved on the tempo research found: tempo and
\* provenance are new, the other fields are as they were
C29_WitnessApprovedOnResearchedTempo ==
    /\ Returned
    /\ ResearchFoundTempo
    /\ Result.approved
    /\ track0.bpm = None
    /\ track.bpm # None
    /\ track0.source = "spotify_features"
    /\ track.source = "external_fallback"
    /\ FieldsKept

----------------------------------------------------------------------------
\* the durations of the first n tracks of a list added up, a missing
\* duration counting as 0
RECURSIVE DurationOfFirst(_, _)
DurationOfFirst(tracks, n) ==
    IF n = 0 THEN 0
    ELSE DurationOfFirst(tracks, n - 1)
         + (IF tracks[n].duration_ms = None THEN 0 ELSE Val(tracks[n].duration_ms))

\* the counts of a PlaylistResult add up
SummaryAddsUp(result) ==
    LET summary == result.verification_summary
    IN /\ summary.approved + summary.rejected = summary.total_candidates
       /\ summary.approved = Len(result.tracks)
       /\ summary.rejected >= 0
       /\ result.total_duration_ms = DurationOfFirst(result.tracks, Len(result.tracks))

\* every candidate of the run state has its decision, and the approved list
\* is the one filter_approved makes of the decisions
VerifiedAndFiltered(s) ==
    /\ Len(s.verified_tracks) = Len(s.candidate_tracks)
    /\ s.approved_tracks = TracksOfApproved(s.verified_tracks)

(* C30.  In every PlaylistResult returned by generate_playlist the summary *)
(* counts satisfy approved + rejected = total_candidates, approved is the  *)
(* number of tracks of the result, rejected is not negative, and           *)
(* total_duration_ms is the sum of the durations of the result's tracks, a *)
(* missing duration counting as 0.  The same holds of the result           *)
(* build_result makes of any run state that verify_tracks and              *)
(* filter_approved have filled.                                            *)

C30_SummaryAddsUp ==
    /\ []( (entry = "generate_playlist" /\ stage = "returned") =>
             SummaryAddsUp(Val(PlaylistOutcome.returned)) )
    /\ []( (WalksGraph /\ RanAt("build_result") # 0) =>
             SummaryAddsUp(Val(state.result)) )
    /\ [][ (Runs("build_result") /\ VerifiedAndFiltered(state)) =>
             SummaryAddsUp(Val(state'.result)) ]_vars
    /\ [][ Runs("build_result") =>
             LET result == Val(state'.result)
             IN /\ result.verification_summary.approved = Len(result.tracks)
                /\ result.total_duration_ms =
                      DurationOfFirst(result.tracks, Len(result.tracks)) ]_vars

\* build_result has run on two decisions, one approving a track without a
\* duration and one rejecting: the counts are 1 + 1 = 2 and the total
\* duration is 0
C30_WitnessOneApprovedNoDuration ==
    /\ walk = <<"build_result">>
    /\ VerifiedAndFiltered(state)
    /\ Val(state.result).verification_summary =
          [total_candidates |-> 2, approved |-> 1, rejected |-> 1]
    /\ Val(state.result).tracks[1].duration_ms = None
    /\ Val(state.result).total_duration_ms = 0

====
